---- MODULE Spec2Model ----
(***************************************************************************)
(* OmniAgent-v2: the coordinator (AgentCoordinator.processRequest), the    *)
(* startConversation helper and the delegation tool (delegate-task), as a  *)
(* state machine whose steps are the code between two suspension points    *)
(* (await of the memory store, of the orchestrator's generate, of a        *)
(* sub-agent's generate).  The intelligent MCP helper, its two relevance  *)
(* scorers and analyzeTask are functions of their arguments; each has a   *)
(* specification of its own that draws the arguments and applies it.      *)
(***************************************************************************)
EXTENDS Integers, Sequences, FiniteSets, TLC

\* ------------------------------------------------------------------ bounds
NumReq == 2          \* call slots of the coordinator's caller
MaxToolCalls == 2    \* tool calls the orchestrator makes in one generate

\* ------------------------------------------------------- values and inputs
None == "<undefined>"            \* JavaScript undefined
NoTimeout == -1                  \* context.timeout absent
Reqs == 1..NumReq

UserIds == {"u1", "u2"}
ThreadArgs == {None, "", "tA", "tB"}
Timeouts == {NoTimeout, 5000}
Messages == {"Hello there", "Send an Email and find the forecast"}
Times == {1000}                  \* values of Date.now()
NewThreadIds == {"mem-1", "mem-2"}   \* ids the memory store gives the threads it creates

\* values a collaborator can throw: an Error instance, or any other value
ThrownValues ==
  { [isError |-> TRUE, message |-> "connection refused",
     stack |-> "Error: connection refused at <anonymous>", str |-> "Error: connection refused"],
    [isError |-> FALSE, message |-> None, stack |-> None, str |-> "rate limited"] }
NoThrow == [isError |-> FALSE, message |-> None, stack |-> None, str |-> None]

\* agent arguments handed to the delegation tool's execute
AgentArgs == {"email", "weather", "quantumComputing", "constructor"}

\* --------------------------------------------------------- string helpers
Includes(s, kw) ==
  \E i \in 1..(Len(s) - Len(kw) + 1) : SubSeq(s, i, i + Len(kw) - 1) = kw

UpperChars == "ABCDEFGHIJKLMNOPQRSTUVWXYZ"
LowerChars == "abcdefghijklmnopqrstuvwxyz"
DigitChars == "0123456789_"

CharAt(s, i) == SubSeq(s, i, i)

\* the lower-case letter of each upper-case letter
LowerOf == [c \in { CharAt(UpperChars, i) : i \in 1..26 } |->
              CharAt(LowerChars, CHOOSE i \in 1..26 : CharAt(UpperChars, i) = c)]

LowerChar(c) == IF c \in DOMAIN LowerOf THEN LowerOf[c] ELSE c

\* each character lower-cased, the string taken by halves
RECURSIVE toLowerCase(_)
toLowerCase(s) ==
  IF s = "" THEN ""
  ELSE IF Len(s) = 1 THEN LowerChar(s)
  ELSE LET half == Len(s) \div 2
       IN  toLowerCase(SubSeq(s, 1, half)) \o toLowerCase(SubSeq(s, half + 1, Len(s)))

\* \w of a JavaScript regular expression
IsWordChar(c) ==
  \E i \in 1..26 : CharAt(UpperChars, i) = c \/ CharAt(LowerChars, i) = c
                   \/ (i <= 11 /\ CharAt(DigitChars, i) = c)

\* (message.match(/\band\b/g) || []).length
CountAndWords(s) ==
  Cardinality({ i \in 1..(Len(s) - 2) :
     /\ SubSeq(s, i, i + 2) = "and"
     /\ (i = 1 \/ ~IsWordChar(CharAt(s, i - 1)))
     /\ (i + 3 > Len(s) \/ ~IsWordChar(CharAt(s, i + 3))) })

\* message.split(' ').length
WordCount(s) == Cardinality({ i \in 1..Len(s) : CharAt(s, i) = " " }) + 1

Max(a, b) == IF a >= b THEN a ELSE b

\* ------------------------------------------------------------ analyzeTask
requiredAgents(message) ==
  LET lowerMessage == toLowerCase(message)
      has(kw) == Includes(lowerMessage, kw)
  IN  <<"mainAgent">>
      \o (IF has("email") \/ has("send") \/ has("reply") THEN <<"emailAgent">> ELSE <<>>)
      \o (IF has("meeting") \/ has("schedule") \/ has("calendar") THEN <<"calendarAgent">> ELSE <<>>)
      \o (IF has("search") \/ has("find") \/ has("research") THEN <<"webSearchAgent">> ELSE <<>>)
      \o (IF has("weather") \/ has("forecast") THEN <<"weatherAgent">> ELSE <<>>)

SeqHas(q, x) == \E i \in 1..Len(q) : q[i] = x

\* variant: the ladder looks at the length of the message only
complexityByLength(agentCount, hasMultipleActions, wordCount) ==
  IF wordCount > 50 THEN "complex"
  ELSE IF wordCount > 20 THEN "moderate"
  ELSE "simple"

\* variant: any detected domain makes the task complex
complexityAnyDomain(agentCount, hasMultipleActions, wordCount) ==
  IF agentCount > 1 \/ hasMultipleActions \/ wordCount > 50 THEN "complex"
  ELSE IF wordCount > 20 THEN "moderate"
  ELSE "simple"

\* the complexity ladder of analyzeTask
complexityOf(agentCount, hasMultipleActions, wordCount) ==
  IF agentCount > 3 \/ hasMultipleActions \/ wordCount > 50 THEN "complex"
  ELSE IF agentCount > 1 \/ wordCount > 20 THEN "moderate"
  ELSE "simple"

\* variant: two steps on top of the agent count
estimatedStepsPlusTwo(agentCount) == agentCount + 2

\* Math.max(3, agentCount * 2)
estimatedStepsOf(agentCount) == Max(3, agentCount * 2)

\* variant: the search intent is tested before the scheduling intent
primaryIntentSearchFirst(agents) ==
  IF SeqHas(agents, "emailAgent") THEN "email management"
  ELSE IF SeqHas(agents, "webSearchAgent") THEN "information retrieval"
  ELSE IF SeqHas(agents, "calendarAgent") THEN "scheduling"
  ELSE "general assistance"

\* the if / else-if chain that sets primaryIntent
primaryIntentOf(agents) ==
  IF SeqHas(agents, "emailAgent") THEN "email management"
  ELSE IF SeqHas(agents, "calendarAgent") THEN "scheduling"
  ELSE IF SeqHas(agents, "webSearchAgent") THEN "information retrieval"
  ELSE "general assistance"

analyzeTask(message) ==
  LET agents == requiredAgents(message)
      agentCount == Len(agents)
      hasMultipleActions == CountAndWords(message) > 1
      wordCount == WordCount(message)
      complexity == complexityOf(agentCount, hasMultipleActions, wordCount)
      primaryIntent == primaryIntentOf(agents)
  IN  [ primaryIntent |-> primaryIntent,
        requiredAgents |-> agents,
        complexity |-> complexity,
        estimatedSteps |-> estimatedStepsOf(agentCount),
        suggestedApproach |->
          IF complexity = "complex" THEN "Break down into subtasks and coordinate multiple agents"
          ELSE IF complexity = "moderate" THEN "Delegate to specialized agents with coordination"
          ELSE "Direct execution by primary agent" ]

\* --------------------------------------------------------- the Mastra side
\* agents registered in the Mastra instance
RegisteredAgents == {"mainAgent", "emailAgent", "calendarAgent", "webSearchAgent"}

\* key under which the main agent registers the delegation tool; the
\* framework reports a tool call under the key of the tools record
DelegationToolKey == "delegateTask"
OtherToolKey == "searchMemory"
DelegationToolId == "delegate-task"

\* config.agents.maxSteps, used by defaultGenerateOptions
DefaultMaxSteps == 5

\* members every object literal inherits from Object.prototype
ObjectPrototypeKeys == {"constructor", "toString", "valueOf", "hasOwnProperty"}

Truthy(s) == s /= None /\ s /= ""

\* keys of the agentMap literal
AgentMapKeys == {"email", "calendar", "webSearch", "weather", "project", "analytics"}

\* variant: a name the map does not know falls back to the email agent
agentMapWithDefault(agent) ==
  IF agent \in AgentMapKeys THEN agent \o "Agent" ELSE "emailAgent"

\* agentMap[agent]
agentMap(agent) ==
  CASE agent = "email" -> "emailAgent"
    [] agent = "calendar" -> "calendarAgent"
    [] agent = "webSearch" -> "webSearchAgent"
    [] agent = "weather" -> "weatherAgent"
    [] agent = "project" -> "projectAgent"
    [] agent = "analytics" -> "analyticsAgent"
    [] agent \in ObjectPrototypeKeys -> "Object.prototype." \o agent
    [] OTHER -> None

\* variant: the context always names a thread of its own
createMemoryContextFresh(userId, threadId, now) ==
  [ thread |-> "thread-" \o userId \o "-" \o ToString(now), resource |-> userId ]

\* createMemoryContext(userId, threadId)
createMemoryContext(userId, threadId, now) ==
  [ thread |-> IF Truthy(threadId) THEN threadId
               ELSE "thread-" \o userId \o "-" \o ToString(now),
    resource |-> userId ]

NoCtx == [thread |-> None, resource |-> None]

\* error instanceof Error ? error.message : fallback
messageOf(e, fallback) == IF e.isError THEN e.message ELSE fallback

ErrorOf(msg) == [isError |-> TRUE, message |-> msg, stack |-> "Error: " \o msg, str |-> "Error: " \o msg]

\* this.analyzeTask(message), for the messages of the requests
analysisOf == [m \in Messages |-> analyzeTask(m)]

\* ------------------------------------------------------ extractAgentsUsed
RECURSIVE addAgents(_, _)
addAgents(agentsUsed, calls) ==
  IF calls = <<>> THEN agentsUsed
  ELSE LET call == Head(calls)
           name == call.agent \o "Agent"
       IN  IF call.toolName = DelegationToolId /\ Truthy(call.agent) /\ ~SeqHas(agentsUsed, name)
           THEN addAgents(Append(agentsUsed, name), Tail(calls))
           ELSE addAgents(agentsUsed, Tail(calls))

extractAgentsUsed(response) == addAgents(<<"mainAgent">>, response.toolCalls)

\* ------------------------------------------------------------------ state
VARIABLES
  pc,            \* per call: idle, createThread, generate, delegate, done, threw
  req,           \* per call: the operation invoked and its arguments
  thread,        \* per call: the local `thread`
  memoryContext, \* per call: runtimeContext.get('memoryContext')
  genCalls,      \* per call: options of the orchestrator generate calls issued
  createCalls,   \* per call: number of memory.createThread calls issued
  toolCalls,     \* per call: tool calls of the orchestrator's generate so far
  deleg,         \* per call: the delegation tool invocation in progress or last returned
  timerFired,    \* per call: context.timeout elapsed while generate was pending
  thrown,        \* per call: the value the call caught or propagated
  result,        \* per call: the value returned to the caller
  threadLog      \* thread ids used for calls that supplied a thread: <<supplied, used>>

vars == <<pc, req, thread, memoryContext, genCalls, createCalls, toolCalls, deleg,
          timerFired, thrown, result, threadLog>>

VARIABLE callers   \* how the callers use the coordinator, and what they pass to it

NoReq == [kind |-> None, userId |-> None, message |-> None, thread |-> None, timeout |-> NoTimeout]
NoDeleg == [agent |-> None, state |-> "none", genCalls |-> 0, results |-> 0,
            memory |-> NoCtx, caught |-> NoThrow, success |-> FALSE, result |-> None,
            error |-> None]
NoResult == [thread |-> None]

Init ==
  /\ pc = [r \in Reqs |-> "idle"]
  /\ req = [r \in Reqs |-> NoReq]
  /\ thread = [r \in Reqs |-> None]
  /\ memoryContext = [r \in Reqs |-> NoCtx]
  /\ genCalls = [r \in Reqs |-> <<>>]
  /\ createCalls = [r \in Reqs |-> 0]
  /\ toolCalls = [r \in Reqs |-> <<>>]
  /\ deleg = [r \in Reqs |-> NoDeleg]
  /\ timerFired = [r \in Reqs |-> FALSE]
  /\ thrown = [r \in Reqs |-> NoThrow]
  /\ result = [r \in Reqs |-> NoResult]
  /\ threadLog = {}

\* ------------------------------------------------------------ the callers
\* the caller awaits one call before it makes the next one
Sequential(r) == \A q \in Reqs \ {r} : pc[q] = "idle"

\* the callers of example-usage.ts, who await each call
AwaitingCallers ==
  [ awaits |-> TRUE, slots |-> Reqs, messages |-> Messages, threads |-> ThreadArgs,
    timeouts |-> Timeouts, agents |-> AgentArgs, toolCalls |-> MaxToolCalls ]

\* two callers whose processRequest calls are in flight together; the
\* orchestrator delegates to the email agent and to the three agents of the
\* input schema that the Mastra instance does not register
ConcurrentCallers ==
  [ awaits |-> FALSE, slots |-> {1, 2}, messages |-> {"Hello there"},
    threads |-> {None, "tA", "tB"}, timeouts |-> {NoTimeout},
    agents |-> {"email", "weather", "project", "analytics"}, toolCalls |-> 1 ]

\* slot r is free for a call of these callers
CallAllowed(r) == r \in callers.slots /\ (callers.awaits => Sequential(r))

Min(a, b) == IF a <= b THEN a ELSE b

\* tool calls the generate in flight may still make
ToolBudget(r) == Min(callers.toolCalls, genCalls[r][Len(genCalls[r])].maxSteps)

\* the thread a generate call was issued against, or a collected result
\* carries, for the processRequest calls that supplied a thread
LogThread(rq, th, what) ==
  IF rq.kind = "processRequest" /\ Truthy(rq.thread)
  THEN threadLog \cup {<<rq.thread, th, what>>} ELSE threadLog

\* variant: the step budget without the buffer
stepBudgetNoBuffer(analysis) == analysis.estimatedSteps

\* maxSteps: analysis.estimatedSteps + 2
stepBudget(analysis) == analysis.estimatedSteps + 2

\* mainAgent.generate(message, {memory: {thread, resource: userId}, runtimeContext, maxSteps})
IssueGenerate(r, rq, th, ctx, maxSteps) ==
  /\ thread' = [thread EXCEPT ![r] = th]
  /\ memoryContext' = [memoryContext EXCEPT ![r] = ctx]
  /\ genCalls' = [genCalls EXCEPT ![r] =
        Append(@, [thread |-> th, resource |-> rq.userId, maxSteps |-> maxSteps])]
  /\ threadLog' = LogThread(rq, th, "generate")
  /\ pc' = [pc EXCEPT ![r] = "generate"]

\* variant: the failure result never names a thread
FailureResultNoThread(rq, e) ==
  [ success |-> FALSE,
    response |-> "I encountered an error while processing your request: "
                   \o messageOf(e, "Unknown error"),
    thread |-> "",
    agentsUsed |-> <<>>,
    metadata |-> [error |-> IF e.isError THEN e.stack ELSE e.str] ]

\* the catch block of processRequest
FailureResult(rq, e) ==
  [ success |-> FALSE,
    response |-> "I encountered an error while processing your request: "
                   \o messageOf(e, "Unknown error"),
    thread |-> IF Truthy(rq.thread) THEN rq.thread ELSE "",
    agentsUsed |-> <<>>,
    metadata |-> [error |-> IF e.isError THEN e.stack ELSE e.str] ]

\* the return statement of processRequest's try block
SuccessResult(rq, th, response) ==
  [ success |-> TRUE,
    response |-> IF Truthy(response.text) THEN response.text ELSE "Task completed successfully",
    thread |-> th,
    agentsUsed |-> extractAgentsUsed(response),
    metadata |-> [analysis |-> analysisOf[rq.message], toolCalls |-> Len(response.toolCalls)] ]

\* variant: the exception is logged and thrown again
CatchRethrows(r, e) ==
  /\ thrown' = [thrown EXCEPT ![r] = e]
  /\ pc' = [pc EXCEPT ![r] = "threw"]
  /\ UNCHANGED result

\* variant: the failure result carries the thread the call resolved
CatchKeepsThread(r, e) ==
  /\ thrown' = [thrown EXCEPT ![r] = e]
  /\ result' = [result EXCEPT ![r] =
        [FailureResult(req[r], e) EXCEPT !.thread = IF thread[r] /= None THEN thread[r] ELSE @]]
  /\ pc' = [pc EXCEPT ![r] = "done"]

\* an exception reaches the catch block of processRequest, or leaves
\* startConversation, which has none
Catch(r, e) ==
  /\ thrown' = [thrown EXCEPT ![r] = e]
  /\ IF req[r].kind = "processRequest"
     THEN /\ result' = [result EXCEPT ![r] = FailureResult(req[r], e)]
          /\ pc' = [pc EXCEPT ![r] = "done"]
     ELSE /\ pc' = [pc EXCEPT ![r] = "threw"]
          /\ UNCHANGED result

\* variant: a thread is created for every request
createsThreadAlways(threadArg) == TRUE

\* context?.thread || await this.createThread(userId); if (!threadId)
createsThread(threadArg) == ~Truthy(threadArg)

\* processRequest up to its first suspension: the thread is taken from the
\* context, or asked of the memory store
StartProcessRequest(r) ==
  /\ pc[r] = "idle"
  /\ CallAllowed(r)
  /\ \E userId \in UserIds, message \in callers.messages, threadArg \in callers.threads,
        timeout \in callers.timeouts, now \in Times :
       LET rq == [kind |-> "processRequest", userId |-> userId, message |-> message,
                  thread |-> threadArg, timeout |-> timeout]
       IN  /\ req' = [req EXCEPT ![r] = rq]
           /\ IF createsThread(threadArg)
              THEN /\ createCalls' = [createCalls EXCEPT ![r] = @ + 1]
                   /\ pc' = [pc EXCEPT ![r] = "createThread"]
                   /\ UNCHANGED <<thread, memoryContext, genCalls, threadLog>>
              ELSE /\ IssueGenerate(r, rq, threadArg,
                                    createMemoryContext(userId, threadArg, now),
                                    stepBudget(analysisOf[message]))
                   /\ UNCHANGED createCalls
  /\ UNCHANGED <<toolCalls, deleg, timerFired, thrown, result>>

\* startConversation up to its first suspension
StartConversation(r) ==
  /\ pc[r] = "idle"
  /\ CallAllowed(r)
  /\ \E userId \in UserIds, message \in callers.messages, threadId \in callers.threads,
        now \in Times :
       LET rq == [kind |-> "startConversation", userId |-> userId, message |-> message,
                  thread |-> threadId, timeout |-> NoTimeout]
           th == IF Truthy(threadId) THEN threadId
                 ELSE "thread-" \o userId \o "-" \o ToString(now)
       IN  /\ req' = [req EXCEPT ![r] = rq]
           /\ IF createsThread(threadId)
              THEN /\ createCalls' = [createCalls EXCEPT ![r] = @ + 1]
                   /\ thread' = [thread EXCEPT ![r] = th]
                   /\ pc' = [pc EXCEPT ![r] = "createThread"]
                   /\ UNCHANGED <<memoryContext, genCalls, threadLog>>
              ELSE /\ IssueGenerate(r, rq, th, NoCtx, DefaultMaxSteps)
                   /\ UNCHANGED createCalls
  /\ UNCHANGED <<toolCalls, deleg, timerFired, thrown, result>>

\* memory.createThread resolves
CreateThreadReturns(r) ==
  /\ pc[r] = "createThread"
  /\ IF req[r].kind = "processRequest"
     THEN \E id \in NewThreadIds, now \in Times :
            IssueGenerate(r, req[r], id, createMemoryContext(req[r].userId, id, now),
                          stepBudget(analysisOf[req[r].message]))
     ELSE IssueGenerate(r, req[r], thread[r], NoCtx, DefaultMaxSteps)
  /\ UNCHANGED <<req, createCalls, toolCalls, deleg, timerFired, thrown, result>>

\* memory.createThread rejects
CreateThreadThrows(r) ==
  /\ pc[r] = "createThread"
  /\ \E e \in ThrownValues : Catch(r, e)
  /\ UNCHANGED <<req, thread, memoryContext, genCalls, createCalls, toolCalls, deleg,
                 timerFired, threadLog>>

\* ------------------------------------------------------ the delegation tool
ImportOutcomes == {"ok", "falsy", "rejects"}
GetAgentOutcomes == {"undefined", "throws"}

\* variant: every agent the map names is there to be called
resolveAgentAnyMapped(agent, imp, ga, e) ==
  IF imp = "rejects" THEN e
  ELSE IF imp = "falsy" THEN ErrorOf("Mastra instance not initialized")
  ELSE IF ~Truthy(agentMap(agent)) THEN ErrorOf("Unknown agent type: " \o agent)
  ELSE NoThrow

\* execute up to targetAgent.generate: the value thrown inside the try block,
\* or NoThrow when execution reaches the generate call
resolveAgent(agent, imp, ga, e) ==
  IF imp = "rejects" THEN e
  ELSE IF imp = "falsy" THEN ErrorOf("Mastra instance not initialized")
  ELSE LET agentName == agentMap(agent)
       IN  IF ~Truthy(agentName) THEN ErrorOf("Unknown agent type: " \o agent)
           ELSE IF agentName \in RegisteredAgents THEN NoThrow
           ELSE IF ga = "throws" THEN ErrorOf("Agent with name " \o agentName \o " not found")
           ELSE ErrorOf("Agent " \o agentName \o " not found or not initialized")

\* variant: the exception leaves execute
delegationFailureRethrows(d, e) == [d EXCEPT !.state = "threw", !.caught = e]

\* the ways execute can reach, or fail to reach, the generate call
resolveOutcomes(agent) ==
  { resolveAgent(agent, imp, ga, e) :
      imp \in ImportOutcomes, ga \in GetAgentOutcomes, e \in ThrownValues }

\* the catch block of execute
delegationFailure(d, e) ==
  [d EXCEPT !.state = "returned", !.results = @ + 1, !.caught = e, !.success = FALSE,
            !.error = messageOf(e, "Unknown error occurred")]

\* variant: the runtime context is one object the calls share, holding what
\* the latest call in flight has set
runtimeMemoryContextShared(r) ==
  LET inFlight == { q \in Reqs : memoryContext[q] /= NoCtx }
  IN  memoryContext[CHOOSE q \in inFlight : \A p \in inFlight : p <= q]

\* runtimeContext?.get('memoryContext'), of the runtime context processRequest
\* made for this call
runtimeMemoryContext(r) == memoryContext[r]

\* the orchestrator calls the delegation tool; execute runs up to the
\* sub-agent's generate, or returns a failure result
DelegateExecute(r) ==
  /\ pc[r] = "generate"
  /\ Len(toolCalls[r]) < ToolBudget(r)
  /\ \E agent \in callers.agents :
     \E t \in resolveOutcomes(agent) :
       LET d == [NoDeleg EXCEPT !.agent = agent]
       IN  /\ toolCalls' = [toolCalls EXCEPT ![r] =
                              Append(@, [toolName |-> DelegationToolKey, agent |-> agent])]
           /\ IF t = NoThrow
              THEN /\ deleg' = [deleg EXCEPT ![r] =
                                  [d EXCEPT !.state = "generating", !.genCalls = @ + 1,
                                            !.memory = runtimeMemoryContext(r)]]
                   /\ pc' = [pc EXCEPT ![r] = "delegate"]
              ELSE /\ deleg' = [deleg EXCEPT ![r] = delegationFailure(d, t)]
                   /\ UNCHANGED pc
  /\ UNCHANGED <<req, thread, memoryContext, genCalls, createCalls, timerFired, thrown,
                 result, threadLog>>

\* targetAgent.generate resolves
SubAgentReturns(r) ==
  /\ pc[r] = "delegate"
  /\ deleg' = [deleg EXCEPT ![r] =
                 [@ EXCEPT !.state = "returned", !.results = @ + 1, !.success = TRUE,
                           !.result = "sub-agent text"]]
  /\ pc' = [pc EXCEPT ![r] = "generate"]
  /\ UNCHANGED <<req, thread, memoryContext, genCalls, createCalls, toolCalls, timerFired,
                 thrown, result, threadLog>>

\* variant: a failed generate is tried once more
SubAgentThrowsRetries(r) ==
  /\ pc[r] = "delegate"
  /\ \E e \in ThrownValues :
       deleg' = [deleg EXCEPT ![r] =
                   IF @.genCalls < 2 THEN [@ EXCEPT !.genCalls = @ + 1]
                   ELSE delegationFailure(@, e)]
  /\ pc' = [pc EXCEPT ![r] = IF deleg[r].genCalls < 2 THEN "delegate" ELSE "generate"]
  /\ UNCHANGED <<req, thread, memoryContext, genCalls, createCalls, toolCalls, timerFired,
                 thrown, result, threadLog>>

\* targetAgent.generate rejects
SubAgentThrows(r) ==
  /\ pc[r] = "delegate"
  /\ \E e \in ThrownValues : deleg' = [deleg EXCEPT ![r] = delegationFailure(@, e)]
  /\ pc' = [pc EXCEPT ![r] = "generate"]
  /\ UNCHANGED <<req, thread, memoryContext, genCalls, createCalls, toolCalls, timerFired,
                 thrown, result, threadLog>>

\* the orchestrator calls one of its other tools
CallOtherTool(r) ==
  /\ pc[r] = "generate"
  /\ Len(toolCalls[r]) < ToolBudget(r)
  /\ toolCalls' = [toolCalls EXCEPT ![r] = Append(@, [toolName |-> OtherToolKey, agent |-> None])]
  /\ deleg' = [deleg EXCEPT ![r] = NoDeleg]
  /\ UNCHANGED <<pc, req, thread, memoryContext, genCalls, createCalls, timerFired, thrown,
                 result, threadLog>>

\* --------------------------------------------- the orchestrator's generate
Texts == {"", "Done."}

\* mainAgent.generate resolves
GenerateReturns(r) ==
  /\ pc[r] = "generate"
  /\ \E text \in Texts :
       LET response == [text |-> text, toolCalls |-> toolCalls[r]]
       IN  IF req[r].kind = "processRequest"
           THEN result' = [result EXCEPT ![r] = SuccessResult(req[r], thread[r], response)]
           ELSE result' = [result EXCEPT ![r] = [response |-> text, thread |-> thread[r]]]
  /\ pc' = [pc EXCEPT ![r] = "done"]
  /\ deleg' = [deleg EXCEPT ![r] = NoDeleg]
  /\ UNCHANGED <<req, thread, memoryContext, genCalls, createCalls, toolCalls, timerFired,
                 thrown, threadLog>>

\* mainAgent.generate rejects
GenerateThrows(r) ==
  /\ pc[r] = "generate"
  /\ \E e \in ThrownValues : Catch(r, e)
  /\ deleg' = [deleg EXCEPT ![r] = NoDeleg]
  /\ UNCHANGED <<req, thread, memoryContext, genCalls, createCalls, toolCalls, timerFired,
                 threadLog>>

\* context.timeout milliseconds pass while generate is pending
TimeoutElapses(r) ==
  /\ pc[r] \in {"generate", "delegate"}
  /\ req[r].timeout /= NoTimeout
  /\ ~timerFired[r]
  /\ timerFired' = [timerFired EXCEPT ![r] = TRUE]
  /\ UNCHANGED <<pc, req, thread, memoryContext, genCalls, createCalls, toolCalls, deleg,
                 thrown, result, threadLog>>

\* the caller takes the outcome of the call; the slot is free for the next call
Collect(r) ==
  /\ pc[r] \in {"done", "threw"}
  /\ pc' = [pc EXCEPT ![r] = "idle"]
  /\ req' = [req EXCEPT ![r] = NoReq]
  /\ thread' = [thread EXCEPT ![r] = None]
  /\ memoryContext' = [memoryContext EXCEPT ![r] = NoCtx]
  /\ genCalls' = [genCalls EXCEPT ![r] = <<>>]
  /\ createCalls' = [createCalls EXCEPT ![r] = 0]
  /\ toolCalls' = [toolCalls EXCEPT ![r] = <<>>]
  /\ deleg' = [deleg EXCEPT ![r] = NoDeleg]
  /\ timerFired' = [timerFired EXCEPT ![r] = FALSE]
  /\ thrown' = [thrown EXCEPT ![r] = NoThrow]
  /\ result' = [result EXCEPT ![r] = NoResult]
  /\ threadLog' = IF pc[r] = "done" THEN LogThread(req[r], result[r].thread, "result")
                  ELSE threadLog

\* ============================================ the intelligent MCP helper
\* Scores are kept in hundredths (0.2 is 20). The code compares a score with
\* 0.3 and with 1 only; the one sum of its increments that equals 0.3 is the
\* single increment 0.3, so the comparisons come out as in double arithmetic.
Hundredths == 100
RelevanceThreshold == 30             \* relevance.score > 0.3
TopN == 5                            \* slice(0, 5)

\* [a-z0-9], the characters query.replace(/[^a-z0-9\s]/g, ' ') keeps
IsLowerAlnum(c) ==
  \E i \in 1..26 : CharAt(LowerChars, i) = c \/ (i <= 10 /\ CharAt(DigitChars, i) = c)

\* s.replace(/[^a-z0-9\s]/g, ' ').split(/\s+/), without the empty strings
\* the split leaves at the two ends (the filter drops them: length > 2)
RECURSIVE splitWords(_, _)
splitWords(s, cur) ==
  IF s = "" THEN (IF cur = "" THEN <<>> ELSE <<cur>>)
  ELSE LET c == CharAt(s, 1)
           rest == SubSeq(s, 2, Len(s))
       IN  IF IsLowerAlnum(c) THEN splitWords(rest, cur \o c)
           ELSE (IF cur = "" THEN <<>> ELSE <<cur>>) \o splitWords(rest, "")

\* [...new Set(list)]
RECURSIVE uniq(_, _)
uniq(seen, list) ==
  IF list = <<>> THEN seen
  ELSE uniq(IF SeqHas(seen, Head(list)) THEN seen ELSE Append(seen, Head(list)), Tail(list))

commonWords ==
  { "the", "a", "an", "and", "or", "but", "in", "on", "at", "to", "for", "of", "with",
    "by", "from", "can", "you", "help", "me", "how", "what", "when", "where", "why",
    "is", "are", "do", "does", "please" }

\* the integrations extractKeywords looks for in the query
keywordIntegrations ==
  << "slack", "github", "jira", "notion", "google", "salesforce", "hubspot" >>

extractKeywords(query) ==
  LET lower == toLowerCase(query)
      keep(word) == Len(word) > 2 /\ word \notin commonWords
      found(integration) == Includes(lower, integration)
      words == SelectSeq(splitWords(lower, ""), keep)
      integrationKeywords == SelectSeq(keywordIntegrations, found)
  IN  uniq(<<>>, words \o integrationKeywords)

\* x || ''
OrEmpty(x) == IF Truthy(x) THEN x ELSE ""

\* x?.includes(kw)
OptIncludes(x, kw) == x /= None /\ Includes(x, kw)

\* reasons.join(', ')
RECURSIVE join(_)
join(reasons) ==
  IF reasons = <<>> THEN ""
  ELSE IF Len(reasons) = 1 THEN Head(reasons)
  ELSE Head(reasons) \o ", " \o join(Tail(reasons))

\* a signal of the scorer: fires or not, with its increment and its reason
Signal(fires, increment, reason) ==
  IF fires THEN <<[increment |-> increment, reason |-> reason]>> ELSE <<>>

RECURSIVE keywordSignals(_, _, _)
keywordSignals(text, keywords, increment) ==
  IF keywords = <<>> THEN <<>>
  ELSE Signal(Includes(text, Head(keywords)), increment, "Contains keyword: " \o Head(keywords))
       \o keywordSignals(text, Tail(keywords), increment)

RECURSIVE sumIncrements(_)
sumIncrements(signals) ==
  IF signals = <<>> THEN 0 ELSE Head(signals).increment + sumIncrements(Tail(signals))

\* variant: the score is returned as summed
relevanceOfUncapped(signals) ==
  [ score |-> sumIncrements(signals),
    reason |-> IF signals = <<>> THEN "General match" ELSE join([i \in 1..Len(signals) |-> signals[i].reason]) ]

\* { score: Math.min(score, 1), reason: reasons.join(', ') || 'General match' }
relevanceOf(signals) ==
  [ score |-> Min(sumIncrements(signals), Hundredths),
    reason |-> IF signals = <<>> THEN "General match" ELSE join([i \in 1..Len(signals) |-> signals[i].reason]) ]

\* ---------------------------------------------- calculateResourceRelevance
resourceSignals(resource, keywords, queryType) ==
  LET resourceText == toLowerCase(OrEmpty(resource.name) \o " " \o OrEmpty(resource.uri)
                                  \o " " \o OrEmpty(resource.description))
  IN  keywordSignals(resourceText, keywords, 20)
      \o Signal(queryType = "information"
                  /\ (\/ resource.mimeType = "text/markdown"
                      \/ OptIncludes(resource.uri, "doc")
                      \/ OptIncludes(resource.name, "guide")),
                30, "Documentation resource")
      \o Signal(OptIncludes(resource.uri, "config") \/ OptIncludes(resource.uri, "settings"),
                20, "Configuration resource")
      \o Signal(OptIncludes(resource.uri, "example") \/ OptIncludes(resource.uri, "template"),
                25, "Example/template resource")

calculateResourceRelevance(resource, keywords, queryType) ==
  relevanceOf(resourceSignals(resource, keywords, queryType))

\* ------------------------------------------------ calculatePromptRelevance
\* the integrations calculatePromptRelevance gives its bonus for
promptIntegrations == << "slack", "github", "jira", "notion", "salesforce" >>

RECURSIVE integrationSignals(_, _, _)
integrationSignals(promptText, keywords, integrations) ==
  IF integrations = <<>> THEN <<>>
  ELSE Signal(Includes(promptText, Head(integrations)) /\ SeqHas(keywords, Head(integrations)),
              50, Head(integrations) \o " integration prompt")
       \o integrationSignals(promptText, keywords, Tail(integrations))

promptSignals(prompt, keywords, queryType) ==
  LET promptText == toLowerCase(OrEmpty(prompt.name) \o " " \o OrEmpty(prompt.description))
  IN  keywordSignals(promptText, keywords, 25)
      \o Signal(queryType = "analysis" /\ Includes(promptText, "analysis"),
                40, "Analysis prompt")
      \o Signal(queryType = "task"
                  /\ (\/ Includes(promptText, "create")
                      \/ Includes(promptText, "generate")
                      \/ Includes(promptText, "build")),
                30, "Task execution prompt")
      \o integrationSignals(promptText, keywords, promptIntegrations)
      \o Signal(prompt.name = "get-started" \/ prompt.name = "help",
                10, "General help prompt")

calculatePromptRelevance(prompt, keywords, queryType) ==
  relevanceOf(promptSignals(prompt, keywords, queryType))

\* ----------------------------------------------------- the helper's inputs
Queries ==
  { "Can you help me analyze my Slack channels?",
    "How do I sync my Google calendar?",
    "Create the api guide" }

\* the optional queryType of the input schema
QueryTypes == { None, "information", "task", "analysis" }

\* resources and prompts the servers list
Resources ==
  [ slackGuide |-> [ name |-> "slack-channels-guide", uri |-> "slack://channels/guide.md",
                     description |-> "Guide to Slack channels", mimeType |-> "text/markdown" ],
    apiDocs |-> [ name |-> "api-docs", uri |-> "file:///reference/api.txt",
                  description |-> None, mimeType |-> "text/plain" ],
    settings |-> [ name |-> None, uri |-> "file:///config/settings.json",
                   description |-> None, mimeType |-> "application/json" ],
    template |-> [ name |-> "report", uri |-> "file:///examples/template.md",
                   description |-> "Report template", mimeType |-> "text/markdown" ],
    notes |-> [ name |-> "release-notes", uri |-> "file:///docs/notes.txt",
                description |-> None, mimeType |-> "text/plain" ],
    userGuide |-> [ name |-> "handbook", uri |-> "file:///guide/handbook.txt",
                    description |-> None, mimeType |-> "text/plain" ],
    slackConfig |-> [ name |-> "slack-config", uri |-> "slack://docs/config/example.json",
                      description |-> "Slack channels configuration",
                      mimeType |-> "application/json" ] ]
ResourcePool == { Resources[k] : k \in DOMAIN Resources }

Prompts ==
  [ slackSummary |-> [ name |-> "slack-summary", description |-> None ],
    analyzeChannels |-> [ name |-> "analyze-channels", description |-> "Analyze channels" ],
    slackAnalysis |-> [ name |-> "Slack-Analysis", description |-> "Analyze Slack channels" ],
    googleSync |-> [ name |-> "google-calendar-sync", description |-> "Sync a Google calendar" ],
    createReport |-> [ name |-> "create-report", description |-> "Generate a report" ],
    help |-> [ name |-> "help", description |-> None ] ]
PromptPool == { Prompts[k] : k \in DOMAIN Prompts }

\* what a server's listing can be: an array of entries, or some other value
ArrayOf(list) == [isArray |-> TRUE, list |-> list]
NotAnArray == [isArray |-> FALSE, list |-> <<>>]

ResourceCatalogues ==
  { NotAnArray,
    ArrayOf(<<Resources.slackGuide, Resources.template, Resources.slackConfig>>),
    ArrayOf(<<Resources.notes, Resources.apiDocs, Resources.settings>>),
    ArrayOf(<<Resources.userGuide, Resources.slackConfig, Resources.notes, Resources.slackGuide>>) }
PromptCatalogues ==
  { NotAnArray,
    ArrayOf(<<Prompts.slackSummary, Prompts.analyzeChannels, Prompts.help>>),
    ArrayOf(<<Prompts.googleSync, Prompts.createReport, Prompts.slackAnalysis>>),
    ArrayOf(<<Prompts.slackAnalysis, Prompts.analyzeChannels, Prompts.slackSummary>>) }

Servers == <<"alpha", "beta">>

\* Object.entries of what client.resources.list() and client.prompts.list()
\* resolve to; {} when there is no client or the listing failed
ListingsOf(catalogues) ==
  { <<>> } \cup { [i \in 1..Len(Servers) |-> [server |-> Servers[i], items |-> f[i]]] :
                  f \in [1..Len(Servers) -> catalogues] }

\* the scorers on the inputs above
keywordsOf == [q \in Queries |-> extractKeywords(q)]
resourceRelevanceOf ==
  [q \in Queries, t \in QueryTypes, r \in ResourcePool |->
     calculateResourceRelevance(r, keywordsOf[q], t)]
promptRelevanceOf ==
  [q \in Queries, t \in QueryTypes, p \in PromptPool |->
     calculatePromptRelevance(p, keywordsOf[q], t)]

\* ------------------------------------------------------------------ execute
\* variant: an entry is kept from 0.3 on
isRelevantFromThreshold(relevance) == relevance.score >= RelevanceThreshold

\* relevance.score > 0.3
isRelevant(relevance) == relevance.score > RelevanceThreshold

\* the inner loop over one server's resources
RECURSIVE pushResources(_, _, _, _)
pushResources(server, resources, q, t) ==
  IF resources = <<>> THEN <<>>
  ELSE LET resource == Head(resources)
           \* calculateResourceRelevance(resource, keywords, queryType)
           relevance == resourceRelevanceOf[q, t, resource]
       IN  (IF isRelevant(relevance)
            THEN << [ server |-> server,
                      name |-> IF Truthy(resource.name) THEN resource.name ELSE resource.uri,
                      uri |-> resource.uri,
                      relevanceReason |-> relevance.reason ] >>
            ELSE <<>>)
           \o pushResources(server, Tail(resources), q, t)

RECURSIVE pushPrompts(_, _, _, _)
pushPrompts(server, prompts, q, t) ==
  IF prompts = <<>> THEN <<>>
  ELSE LET prompt == Head(prompts)
           \* calculatePromptRelevance(prompt, keywords, queryType)
           relevance == promptRelevanceOf[q, t, prompt]
       IN  (IF isRelevant(relevance)
            THEN << [ server |-> server,
                      name |-> prompt.name,
                      description |-> prompt.description,
                      relevanceReason |-> relevance.reason ] >>
            ELSE <<>>)
           \o pushPrompts(server, Tail(prompts), q, t)

\* the outer loops over Object.entries(allResources), Object.entries(allPrompts)
RECURSIVE findRelevantResources(_, _, _)
findRelevantResources(entries, q, t) ==
  IF entries = <<>> THEN <<>>
  ELSE (IF ~Head(entries).items.isArray THEN <<>>
        ELSE pushResources(Head(entries).server, Head(entries).items.list, q, t))
       \o findRelevantResources(Tail(entries), q, t)

RECURSIVE findRelevantPrompts(_, _, _)
findRelevantPrompts(entries, q, t) ==
  IF entries = <<>> THEN <<>>
  ELSE (IF ~Head(entries).items.isArray THEN <<>>
        ELSE pushPrompts(Head(entries).server, Head(entries).items.list, q, t))
       \o findRelevantPrompts(Tail(entries), q, t)

\* list.sort((a, b) => b.relevanceReason.length - a.relevanceReason.length);
\* Array.prototype.sort is stable
RECURSIVE sortByReasonLength(_, _)
sortByReasonLength(sorted, list) ==
  IF list = <<>> THEN sorted
  ELSE LET x == Head(list)
           k == Cardinality({ i \in 1..Len(sorted) :
                  Len(sorted[i].relevanceReason) >= Len(x.relevanceReason) })
       IN  sortByReasonLength(SubSeq(sorted, 1, k) \o <<x>> \o SubSeq(sorted, k + 1, Len(sorted)),
                              Tail(list))

\* list.slice(0, n)
slice(list, n) == SubSeq(list, 1, Min(n, Len(list)))

generateSuggestions(query, resources, prompts, queryType) ==
  LET isDoc(r) == Includes(r.name, "doc") \/ Includes(r.name, "guide") \/ Includes(r.uri, ".md")
      isAnalysis(p) == Includes(p.name, "analysis")
      isIntegration(p) == \/ Includes(p.name, "slack")
                          \/ Includes(p.name, "github")
                          \/ OptIncludes(p.description, "integration")
  IN  (IF Len(resources) > 0
       THEN << "Found " \o ToString(Len(resources))
                 \o " relevant resources that might help with your request" >>
            \o (IF (\E i \in 1..Len(resources) : isDoc(resources[i]))
                THEN << "Consider checking the documentation resources first for guidance" >>
                ELSE <<>>)
       ELSE <<>>)
      \o (IF Len(prompts) > 0
          THEN << "Found " \o ToString(Len(prompts))
                    \o " relevant prompts that can structure the response" >>
               \o (IF (\E i \in 1..Len(prompts) : isAnalysis(prompts[i])) /\ Includes(toLowerCase(query), "analyz")
                   THEN << "Use an analysis prompt for a comprehensive structured analysis" >>
                   ELSE <<>>)
               \o (IF (\E i \in 1..Len(prompts) : isIntegration(prompts[i]))
                   THEN << "Integration-specific prompts are available for better results" >>
                   ELSE <<>>)
          ELSE <<>>)
      \o (IF Len(resources) = 0 /\ Len(prompts) = 0
          THEN << "No directly relevant MCP resources or prompts found",
                  "Proceeding with general knowledge and available tools" >>
          ELSE <<>>)

execute(userQuery, queryType, allResources, allPrompts) ==
  LET relevantResources ==
        sortByReasonLength(<<>>, findRelevantResources(allResources, userQuery, queryType))
      relevantPrompts ==
        sortByReasonLength(<<>>, findRelevantPrompts(allPrompts, userQuery, queryType))
  IN  [ relevantResources |-> slice(relevantResources, TopN),
        relevantPrompts |-> slice(relevantPrompts, TopN),
        suggestions |-> generateSuggestions(userQuery, relevantResources, relevantPrompts, queryType),
        shouldUseResources |-> Len(relevantResources) > 0,
        shouldUsePrompts |-> Len(relevantPrompts) > 0 ]

\* -------------------- state of the helper, the scorers and the task analysis
MaxWords == 5                        \* words a caller puts before the padding

VARIABLES
  ctxUserQuery,      \* context.userQuery
  ctxQueryType,      \* context.queryType
  scoredResource,    \* the resource handed to calculateResourceRelevance
  scoredPrompt,      \* the prompt handed to calculatePromptRelevance
  resourceRelevance, \* what calculateResourceRelevance returned
  promptRelevance,   \* what calculatePromptRelevance returned
  allResources,      \* Object.entries(await getMCPResources())
  allPrompts,        \* Object.entries(await getMCPPrompts())
  helperResult,      \* what the helper's execute returned
  taskWords,         \* the words of the message handed to analyzeTask
  taskPadding,       \* filler words that follow them
  analysis           \* what analyzeTask returned

pureVars == <<ctxUserQuery, ctxQueryType, scoredResource, scoredPrompt, resourceRelevance,
              promptRelevance, allResources, allPrompts, helperResult,
              taskWords, taskPadding, analysis>>
\* ------------------------------------- state of the MCP module and its tools
VARIABLES
  mcpClientInstance, \* the module's singleton: a client, or null
  created,           \* clients createMCPClient has made
  disconnected,      \* clients on which disconnect() has been invoked
  configured,        \* servers the environment configures
  unreachable,       \* configured servers that do not answer
  task               \* per caller: the call of the module in progress or returned

mcpVars == <<mcpClientInstance, created, disconnected, configured, unreachable, task>>

VARIABLES
  clearArgs,         \* userId and threadId of clearConversationHistory
  clearPc,           \* its position: idle, the memory call awaited, done, threw
  clearCalls,        \* the memory calls it issued, each with its outcome
  clearQueue,        \* threads of the user still to be cleared
  clearResult        \* the boolean it returned, once clearPc is done

clearVars == <<clearArgs, clearPc, clearCalls, clearQueue, clearResult>>

VARIABLES
  searchArgs,        \* context and registry content of searchMCPResources
  searchResult,      \* what its execute returned
  planArgs,          \* the task analysis handed to generateSteps
  plan               \* the plan the task planner returned

toolVars == <<searchArgs, searchResult, planArgs, plan>>

serviceVars == <<mcpVars, clearVars, toolVars>>
allVars == <<vars, callers, pureVars, serviceVars>>

NoEntry == [name |-> None]
NoRelevance == [score |-> -1, reason |-> None]
NoHelperResult ==
  [ returned |-> FALSE,
    value |-> [ relevantResources |-> <<>>, relevantPrompts |-> <<>>, suggestions |-> <<>>,
                shouldUseResources |-> FALSE, shouldUsePrompts |-> FALSE ] ]
NoAnalysis == [ primaryIntent |-> None, requiredAgents |-> <<>>, complexity |-> None,
                estimatedSteps |-> 0, suggestedApproach |-> None ]

\* a call of calculateResourceRelevance from the helper's loop
ScoreResource ==
  /\ resourceRelevance = NoRelevance
  /\ resourceRelevance' =
       calculateResourceRelevance(scoredResource, extractKeywords(ctxUserQuery), ctxQueryType)
  /\ UNCHANGED <<vars, callers, serviceVars, ctxUserQuery, ctxQueryType, scoredResource, scoredPrompt,
                 promptRelevance, allResources, allPrompts, helperResult,
                 taskWords, taskPadding, analysis>>

\* a call of calculatePromptRelevance from the helper's loop
ScorePrompt ==
  /\ promptRelevance = NoRelevance
  /\ promptRelevance' =
       calculatePromptRelevance(scoredPrompt, extractKeywords(ctxUserQuery), ctxQueryType)
  /\ UNCHANGED <<vars, callers, serviceVars, ctxUserQuery, ctxQueryType, scoredResource, scoredPrompt,
                 resourceRelevance, allResources, allPrompts, helperResult,
                 taskWords, taskPadding, analysis>>

\* the helper's execute
Execute ==
  /\ ~helperResult.returned
  /\ helperResult' =
       [ returned |-> TRUE,
         value |-> execute(ctxUserQuery, ctxQueryType, allResources, allPrompts) ]
  /\ UNCHANGED <<vars, callers, serviceVars, ctxUserQuery, ctxQueryType, scoredResource, scoredPrompt,
                 resourceRelevance, promptRelevance, allResources, allPrompts,
                 taskWords, taskPadding, analysis>>

Vocabulary == { "email", "meeting", "find", "forecast", "and", "And" }
Paddings == { 0, 16, 46 }

RECURSIVE joinWords(_)
joinWords(words) ==
  IF words = <<>> THEN ""
  ELSE IF Len(words) = 1 THEN Head(words)
  ELSE Head(words) \o " " \o joinWords(Tail(words))

RECURSIVE padding(_)
padding(n) == IF n = 0 THEN "" ELSE " x" \o padding(n - 1)

\* the message a caller types: the words, then the filler, single spaces between
messageOfWords(words, n) == joinWords(words) \o padding(n)

\* AgentCoordinator.analyzeTask(message)
AnalyzeTask ==
  /\ analysis = NoAnalysis
  /\ analysis' = analyzeTask(messageOfWords(taskWords, taskPadding))
  /\ UNCHANGED <<vars, callers, serviceVars, ctxUserQuery, ctxQueryType, scoredResource, scoredPrompt,
                 resourceRelevance, promptRelevance, allResources, allPrompts, helperResult,
                 taskWords, taskPadding>>

\* ====================================================== the MCP client module
MaxClients == 2                      \* clients made in one run
NumTasks == 2                        \* callers of the module at one time

Tasks == 1..NumTasks
MCPServers == {"rube", "weather", "email"}
Listings == {"getMCPTools", "getMCPResources", "getMCPPrompts"}

\* client: the client the call holds or returned; calls: calls of the client's
\* listing operation it made; value: the servers whose entries the returned
\* record holds, {} for the record without entries; stale: disconnect() had
\* been invoked on the client when getMCPClient returned it
NoTask ==
  [ op |-> None, pc |-> "idle", client |-> None, calls |-> 0, value |-> {},
    stale |-> FALSE ]

\* createMCPClient(): null when no server is configured
createMCPClient ==
  IF configured = {} THEN None ELSE "client" \o ToString(created + 1)

\* the body of getMCPClient, which runs without suspension: client is the
\* instance it returns
getMCPClient(client) ==
  /\ client = IF mcpClientInstance /= None THEN mcpClientInstance ELSE createMCPClient
  /\ client /= mcpClientInstance => created < MaxClients
  /\ mcpClientInstance' = client
  /\ created' = IF client /= mcpClientInstance THEN created + 1 ELSE created

ClientIds == { "client" \o ToString(i) : i \in 1..MaxClients }

\* a caller calls getMCPClient()
GetMCPClient(t) ==
  /\ task[t].pc = "idle"
  /\ \E client \in ClientIds \cup {None} :
       /\ getMCPClient(client)
       /\ task' = [task EXCEPT ![t] = [NoTask EXCEPT !.op = "getMCPClient", !.pc = "done",
                                                     !.client = client,
                                                     !.stale = client \in disconnected]]
  /\ UNCHANGED <<disconnected, configured, unreachable>>

\* getMCPTools, getMCPResources or getMCPPrompts up to `await getMCPClient()`
CallListing(t) ==
  /\ task[t].pc = "idle"
  /\ \E op \in Listings, client \in ClientIds \cup {None} :
       /\ getMCPClient(client)
       /\ task' = [task EXCEPT ![t] = [NoTask EXCEPT !.op = op, !.pc = "gotClient",
                                                     !.client = client]]
  /\ UNCHANGED <<disconnected, configured, unreachable>>

\* variant: the listing is served from what an earlier listing returned
ListFromSnapshot(t) ==
  /\ task[t].pc = "gotClient"
  /\ task' = [task EXCEPT ![t] = [@ EXCEPT !.pc = "done", !.value = configured \ unreachable]]
  /\ UNCHANGED <<mcpClientInstance, created, disconnected, configured, unreachable>>

\* if (!client) return {}; otherwise client.getTools(), client.resources.list()
\* or client.prompts.list() is called, and awaited inside the try block
ListFromClient(t) ==
  /\ task[t].pc = "gotClient"
  /\ task' = [task EXCEPT ![t] =
        IF task[t].client = None THEN [@ EXCEPT !.pc = "done"]
        ELSE [@ EXCEPT !.pc = "listing", !.calls = @ + 1]]
  /\ UNCHANGED <<mcpClientInstance, created, disconnected, configured, unreachable>>

\* the client's call resolves with the entries of the servers that answered
ClientListResolves(t) ==
  /\ task[t].pc = "listing"
  /\ task' = [task EXCEPT ![t] = [@ EXCEPT !.pc = "done", !.value = configured \ unreachable]]
  /\ UNCHANGED <<mcpClientInstance, created, disconnected, configured, unreachable>>

\* the client's call rejects, which it can when a server does not answer or
\* the client was disconnected; the catch block logs and returns {}
ClientListRejects(t) ==
  /\ task[t].pc = "listing"
  /\ unreachable /= {} \/ task[t].client \in disconnected
  /\ task' = [task EXCEPT ![t] = [@ EXCEPT !.pc = "done", !.value = {}]]
  /\ UNCHANGED <<mcpClientInstance, created, disconnected, configured, unreachable>>

\* disconnectMCP up to `await mcpClientInstance.disconnect()`
DisconnectMCP(t) ==
  /\ task[t].pc = "idle"
  /\ task' = [task EXCEPT ![t] =
        [NoTask EXCEPT !.op = "disconnectMCP", !.client = mcpClientInstance,
                       !.pc = IF mcpClientInstance /= None THEN "disconnecting" ELSE "done"]]
  /\ disconnected' = disconnected \cup ({mcpClientInstance} \ {None})
  /\ UNCHANGED <<mcpClientInstance, created, configured, unreachable>>

\* disconnect() resolves: mcpClientInstance = null
DisconnectResolves(t) ==
  /\ task[t].pc = "disconnecting"
  /\ mcpClientInstance' = None
  /\ task' = [task EXCEPT ![t] = [@ EXCEPT !.pc = "done"]]
  /\ UNCHANGED <<created, disconnected, configured, unreachable>>

\* disconnect() rejects: the exception leaves disconnectMCP, the assignment
\* is not reached
DisconnectRejects(t) ==
  /\ task[t].pc = "disconnecting"
  /\ task' = [task EXCEPT ![t] = [@ EXCEPT !.pc = "threw"]]
  /\ UNCHANGED <<mcpClientInstance, created, disconnected, configured, unreachable>>

\* the caller takes the outcome of its call
TaskReturns(t) ==
  /\ task[t].pc \in {"done", "threw"}
  /\ task' = [task EXCEPT ![t] = NoTask]
  /\ UNCHANGED <<mcpClientInstance, created, disconnected, configured, unreachable>>

\* the module after import: the environment configures no server or all of
\* them, and at most one of them does not answer
InitMCP ==
  /\ mcpClientInstance = None
  /\ created = 0
  /\ disconnected = {}
  /\ configured \in {{}, MCPServers}
  /\ unreachable \in {{}} \cup {{server} : server \in configured}
  /\ task = [t \in Tasks |-> NoTask]

\* the module never imported
NoMCP ==
  /\ mcpClientInstance = None
  /\ created = 0
  /\ disconnected = {}
  /\ configured = {}
  /\ unreachable = {}
  /\ task = [t \in Tasks |-> NoTask]
\* ================================================ clearConversationHistory
MaxThreads == 2                      \* threads the memory store holds for a user

\* what memory.getThreadsByResourceId resolves to: the ids of the threads
ThreadLists == UNION { [1..n -> {"tA", "tB"}] : n \in 0..MaxThreads }

\* what memory.query resolves to: the ids of uiMessages, None for a message
\* without id
MessageLists == { <<>>, <<"m1">>, <<None>>, <<"m1", None, "m2">> }

\* uiMessages.map(msg => msg.id).filter(Boolean)
messageIdsOf(uiMessages) == SelectSeq(uiMessages, Truthy)

\* a memory call is issued and awaited
IssueMemoryCall(op, queue) ==
  /\ clearCalls' = Append(clearCalls, [op |-> op, outcome |-> "pending"])
  /\ clearPc' = op
  /\ clearQueue' = queue
  /\ UNCHANGED clearResult

\* the memory call awaited has resolved
Resolved == [clearCalls EXCEPT ![Len(clearCalls)].outcome = "ok"]

\* the threads of queue are still to be queried: the next iteration of the
\* loop, or return true after the last one
ClearNext(queue) ==
  IF queue = <<>>
  THEN /\ clearCalls' = Resolved
       /\ clearPc' = "done"
       /\ clearResult' = TRUE
       /\ clearQueue' = queue
  ELSE /\ clearCalls' = Append(Resolved, [op |-> "query", outcome |-> "pending"])
       /\ clearPc' = "query"
       /\ clearQueue' = queue
       /\ UNCHANGED clearResult

\* clearConversationHistory(userId, threadId) up to its first await
ClearConversationHistory ==
  /\ clearPc = "idle"
  /\ IF Truthy(clearArgs.threadId)
     THEN IssueMemoryCall("query", <<clearArgs.threadId>>)
     ELSE IssueMemoryCall("getThreadsByResourceId", <<>>)
  /\ UNCHANGED clearArgs

\* memory.getThreadsByResourceId resolves
GetThreadsResolves ==
  /\ clearPc = "getThreadsByResourceId"
  /\ \E threads \in ThreadLists : ClearNext(threads)
  /\ UNCHANGED clearArgs

\* memory.query resolves
QueryResolves ==
  /\ clearPc = "query"
  /\ \E uiMessages \in MessageLists :
       IF Len(messageIdsOf(uiMessages)) > 0
       THEN /\ clearCalls' = Append(Resolved, [op |-> "deleteMessages", outcome |-> "pending"])
            /\ clearPc' = "deleteMessages"
            /\ UNCHANGED <<clearQueue, clearResult>>
       ELSE ClearNext(Tail(clearQueue))
  /\ UNCHANGED clearArgs

\* memory.deleteMessages resolves
DeleteResolves ==
  /\ clearPc = "deleteMessages"
  /\ ClearNext(Tail(clearQueue))
  /\ UNCHANGED clearArgs

\* variant: a thread whose call failed is skipped
MemoryRejectsSkips ==
  /\ clearPc \in {"getThreadsByResourceId", "query", "deleteMessages"}
  /\ clearCalls' = [clearCalls EXCEPT ![Len(clearCalls)].outcome = "failed"]
  /\ clearPc' = "done"
  /\ clearResult' = TRUE
  /\ UNCHANGED <<clearArgs, clearQueue>>

\* the memory call awaited rejects: the catch block logs and returns false
MemoryRejects ==
  /\ clearPc \in {"getThreadsByResourceId", "query", "deleteMessages"}
  /\ clearCalls' = [clearCalls EXCEPT ![Len(clearCalls)].outcome = "failed"]
  /\ clearPc' = "done"
  /\ clearResult' = FALSE
  /\ UNCHANGED <<clearArgs, clearQueue>>

\* no call of clearConversationHistory made yet, on these arguments
ClearArguments(userIds, threadIds) ==
  /\ clearArgs \in [userId : userIds, threadId : threadIds]
  /\ clearPc = "idle"
  /\ clearCalls = <<>>
  /\ clearQueue = <<>>
  /\ clearResult = FALSE
\* ===================================================== searchMCPResources
MaxResultsArg == 2                   \* largest maxResults a caller passes

\* resources of the registry: text is what readMCPResource returns for the
\* uri, None when the read fails
SearchPool ==
  [ budget |-> [name |-> "budget", uri |-> "file://budget.txt", mimeType |-> "text/plain",
                text |-> "Quarterly BUDGET figures for all teams"],
    plan   |-> [name |-> None, uri |-> "file://plan.md", mimeType |-> "text/markdown",
                text |-> "Budget plan for the next two quarters"],
    report |-> [name |-> "report", uri |-> "file://report", mimeType |-> None,
                text |-> "the budget report"],
    notes  |-> [name |-> "notes", uri |-> "file://notes.txt", mimeType |-> "text/plain",
                text |-> "meeting notes"],
    locked |-> [name |-> "locked", uri |-> "file://locked.txt", mimeType |-> "text/plain",
                text |-> None],
    logo   |-> [name |-> "logo", uri |-> "file://logo.png", mimeType |-> "image/png",
                text |-> "budget" ] ]

SearchCatalogues ==
  { NotAnArray, ArrayOf(<<>>), ArrayOf(<<SearchPool.budget>>),
    ArrayOf(<<SearchPool.notes, SearchPool.budget, SearchPool.plan>>),
    ArrayOf(<<SearchPool.logo, SearchPool.locked, SearchPool.report, SearchPool.plan>>),
    ArrayOf(<<SearchPool.budget, SearchPool.plan, SearchPool.report>>) }

SearchContexts ==
  [ searchTerm : {"budget"}, mimeType : {None, "text/plain"}, maxResults : 0..MaxResultsArg,
    maxResourcesToScan : {1, 100}, serverFilter : {None, "beta"}, minTextLength : {0, 20} ]

\* mimeType?.startsWith(prefix)
OptStartsWith(x, prefix) == x /= None /\ SubSeq(x, 1, Len(prefix)) = prefix

\* the body of the loop over the resources of one server, from the resource
\* at the head of items on; acc holds results and searched
RECURSIVE scanResources(_, _, _, _)
scanResources(serverName, items, ctx, acc) ==
  IF items = <<>> THEN acc
  ELSE
    LET resource == Head(items)
        text == OrEmpty(resource.text)
        pushed == Append(acc.results,
                    [ server |-> serverName, name |-> IF Truthy(resource.name) THEN resource.name
                                                      ELSE "Unnamed",
                      uri |-> resource.uri, mimeType |-> resource.mimeType ])
        counted == [acc EXCEPT !.searched = @ + 1]
    IN  IF Truthy(ctx.mimeType) /\ resource.mimeType /= ctx.mimeType
        THEN scanResources(serverName, Tail(items), ctx, acc)
        ELSE IF \E prefix \in {"image/", "video/", "audio/"} :
                  OptStartsWith(resource.mimeType, prefix)
        THEN scanResources(serverName, Tail(items), ctx, acc)
        ELSE IF acc.searched >= ctx.maxResourcesToScan THEN acc
        ELSE IF resource.text = None
        THEN IF Len(acc.results) >= ctx.maxResults THEN counted
             ELSE scanResources(serverName, Tail(items), ctx, counted)
        ELSE IF ~Includes(toLowerCase(text), toLowerCase(ctx.searchTerm))
        THEN IF Len(acc.results) >= ctx.maxResults THEN counted
             ELSE scanResources(serverName, Tail(items), ctx, counted)
        ELSE IF ctx.minTextLength /= 0 /\ Len(text) < ctx.minTextLength
        THEN scanResources(serverName, Tail(items), ctx, counted)
        ELSE IF Len(pushed) >= ctx.maxResults THEN [counted EXCEPT !.results = pushed]
        ELSE scanResources(serverName, Tail(items), ctx, [counted EXCEPT !.results = pushed])

\* the loop over Object.entries(allResources)
RECURSIVE scanServers(_, _, _)
scanServers(entries, ctx, acc) ==
  IF entries = <<>> THEN acc
  ELSE
    LET entry == Head(entries)
    IN  IF Truthy(ctx.serverFilter) /\ entry.server /= ctx.serverFilter
        THEN scanServers(Tail(entries), ctx, acc)
        ELSE IF ~entry.items.isArray THEN scanServers(Tail(entries), ctx, acc)
        ELSE LET scanned == scanResources(entry.server, entry.items.list, ctx, acc)
             IN  IF Len(scanned.results) >= ctx.maxResults THEN scanned
                 ELSE scanServers(Tail(entries), ctx, scanned)

\* searchMCPResourcesTool.execute
searchExecute(ctx, registry) ==
  LET scanned == scanServers(registry, ctx, [results |-> <<>>, searched |-> 0])
  IN  [ results |-> scanned.results, searched |-> scanned.searched,
        found |-> Len(scanned.results) ]

NoSearchArgs == [context |-> None, registry |-> <<>>]
NoSearchResult == [results |-> <<>>, searched |-> -1, found |-> -1]

\* a call of the search tool
SearchMCPResources ==
  /\ searchResult = NoSearchResult
  /\ searchResult' = searchExecute(searchArgs.context, searchArgs.registry)
  /\ UNCHANGED <<vars, callers, pureVars, mcpVars, clearVars, searchArgs, planArgs, plan>>

\* ========================================================= the task planner
MaxPlanWords == 3                    \* words of a task description

PlanVocabulary == {"Send", "calendar", "find", "then", "report"}

\* analyzeTask(description) of the planner, without the keywords
plannerAnalyzeTask(description) ==
  LET lowerDesc == toLowerCase(description)
  IN  [ isEmail |-> \E w \in {"email", "send", "reply"} : Includes(lowerDesc, w),
        isCalendar |-> \E w \in {"meeting", "schedule", "calendar"} : Includes(lowerDesc, w),
        isSearch |-> \E w \in {"find", "search", "look"} : Includes(lowerDesc, w),
        isComplex |-> \/ WordCount(description) > 20
                      \/ Includes(lowerDesc, "and") \/ Includes(lowerDesc, "then") ]

\* a step as generateSteps pushes it; dependencies <<>> when the literal has none
Step(action, agent, dependencies) ==
  [action |-> action, agent |-> agent, dependencies |-> dependencies]

\* steps.push(...) under a condition
PushIf(cond, steps, pushed) == IF cond THEN steps \o pushed ELSE steps

generateSteps(a) ==
  LET email == PushIf(a.isEmail, <<>>,
                 << Step("Search for relevant emails or contacts", "email", <<>>),
                    Step("Compose or prepare email content", "email", <<0>>) >>)
      check == PushIf(a.isCalendar, email,
                 << Step("Check calendar availability", "calendar", <<>>) >>)
      calendar == PushIf(a.isCalendar, check,
                 << Step("Create or update calendar event", "calendar", <<Len(check) - 1>>) >>)
      web == PushIf(a.isSearch, calendar,
                 << Step("Search web for relevant information", "webSearch", <<>>) >>)
      search == PushIf(a.isSearch, web,
                 << Step("Synthesize and summarize findings", "main", <<Len(web) - 1>>) >>)
      coordinated == PushIf(a.isComplex /\ Len(search) > 2, search,
                 << Step("Coordinate results and prepare final output", "main",
                         [i \in 1..Len(search) |-> i - 1]) >>)
  IN  PushIf(Len(coordinated) = 0, coordinated,
             << Step("Process request and provide response", "main", <<>>) >>)

\* createTaskPlannerTool.execute: title, overview and steps of the plan; the
\* step at array index i - 1 gets order: index + 1
planExecute(taskDescription) ==
  LET steps == generateSteps(plannerAnalyzeTask(taskDescription))
  IN  [ overview |-> "Plan to " \o toLowerCase(taskDescription),
        steps |-> [ i \in 1..Len(steps) |->
                      [ order |-> (i - 1) + 1, action |-> steps[i].action,
                        agent |-> steps[i].agent, dependencies |-> steps[i].dependencies ] ] ]

NoPlan == [overview |-> None, steps |-> <<>>]

\* a call of the task planner
PlanTask ==
  /\ plan = NoPlan
  /\ plan' = planExecute(planArgs)
  /\ UNCHANGED <<vars, callers, pureVars, mcpVars, clearVars, searchArgs, searchResult,
                 planArgs>>

\* the arguments of the two tools, nothing returned
ToolArguments(searches, descriptions) ==
  /\ searchArgs \in searches
  /\ searchResult = NoSearchResult
  /\ planArgs \in descriptions
  /\ plan = NoPlan

\* ------------------------------------------------------- the specifications
\* the arguments of the helper, of the scorers and of analyzeTask, nothing returned
Arguments(queries, types, resources, prompts, resourceLists, promptLists, words, paddings) ==
  /\ ctxUserQuery \in queries
  /\ ctxQueryType \in types
  /\ scoredResource \in resources
  /\ scoredPrompt \in prompts
  /\ resourceRelevance = NoRelevance
  /\ promptRelevance = NoRelevance
  /\ allResources \in resourceLists
  /\ allPrompts \in promptLists
  /\ helperResult = NoHelperResult
  /\ taskWords \in words
  /\ taskPadding \in paddings
  /\ analysis = NoAnalysis

\* the MCP module, clearConversationHistory and the two tools not in use
IdleServices ==
  /\ NoMCP
  /\ ClearArguments({None}, {None})
  /\ ToolArguments({NoSearchArgs}, {None})

\* the coordinator and the delegation tool
Next ==
  \E r \in Reqs :
    \/ StartProcessRequest(r) /\ UNCHANGED <<callers, pureVars, serviceVars>>
    \/ StartConversation(r) /\ UNCHANGED <<callers, pureVars, serviceVars>>
    \/ CreateThreadReturns(r) /\ UNCHANGED <<callers, pureVars, serviceVars>>
    \/ CreateThreadThrows(r) /\ UNCHANGED <<callers, pureVars, serviceVars>>
    \/ DelegateExecute(r) /\ UNCHANGED <<callers, pureVars, serviceVars>>
    \/ SubAgentReturns(r) /\ UNCHANGED <<callers, pureVars, serviceVars>>
    \/ SubAgentThrows(r) /\ UNCHANGED <<callers, pureVars, serviceVars>>
    \/ CallOtherTool(r) /\ UNCHANGED <<callers, pureVars, serviceVars>>
    \/ GenerateReturns(r) /\ UNCHANGED <<callers, pureVars, serviceVars>>
    \/ GenerateThrows(r) /\ UNCHANGED <<callers, pureVars, serviceVars>>
    \/ TimeoutElapses(r) /\ UNCHANGED <<callers, pureVars, serviceVars>>
    \/ Collect(r) /\ UNCHANGED <<callers, pureVars, serviceVars>>

InitCoordinator ==
  /\ Init
  /\ callers = AwaitingCallers
  /\ IdleServices
  /\ Arguments({None}, {None}, {NoEntry}, {NoEntry}, {<<>>}, {<<>>}, {<<>>}, {0})

Spec == InitCoordinator /\ [][Next]_allVars

\* processRequest calls in flight together
NextConcurrent ==
  \E r \in Reqs :
    \/ StartProcessRequest(r) /\ UNCHANGED <<callers, pureVars, serviceVars>>
    \/ CreateThreadReturns(r) /\ UNCHANGED <<callers, pureVars, serviceVars>>
    \/ CreateThreadThrows(r) /\ UNCHANGED <<callers, pureVars, serviceVars>>
    \/ DelegateExecute(r) /\ UNCHANGED <<callers, pureVars, serviceVars>>
    \/ SubAgentReturns(r) /\ UNCHANGED <<callers, pureVars, serviceVars>>
    \/ SubAgentThrows(r) /\ UNCHANGED <<callers, pureVars, serviceVars>>
    \/ GenerateReturns(r) /\ UNCHANGED <<callers, pureVars, serviceVars>>
    \/ GenerateThrows(r) /\ UNCHANGED <<callers, pureVars, serviceVars>>

InitConcurrent ==
  /\ Init
  /\ callers = ConcurrentCallers
  /\ IdleServices
  /\ Arguments({None}, {None}, {NoEntry}, {NoEntry}, {<<>>}, {<<>>}, {<<>>}, {0})

SpecConcurrent == InitConcurrent /\ [][NextConcurrent]_allVars

\* the two scorers, each on one entry
InitScore ==
  /\ Init
  /\ callers = AwaitingCallers
  /\ IdleServices
  /\ Arguments(Queries, QueryTypes, ResourcePool, PromptPool, {<<>>}, {<<>>}, {<<>>}, {0})

NextScore == ScoreResource \/ ScorePrompt

SpecScore == InitScore /\ [][NextScore]_allVars

\* the helper on a listing of the servers
InitHelper ==
  /\ Init
  /\ callers = AwaitingCallers
  /\ IdleServices
  /\ Arguments(Queries, QueryTypes, {NoEntry}, {NoEntry},
               ListingsOf(ResourceCatalogues), ListingsOf(PromptCatalogues), {<<>>}, {0})

SpecHelper == InitHelper /\ [][Execute]_allVars

\* analyzeTask on the messages of the vocabulary
InitAnalyze ==
  /\ Init
  /\ callers = AwaitingCallers
  /\ IdleServices
  /\ Arguments({None}, {None}, {NoEntry}, {NoEntry}, {<<>>}, {<<>>},
               UNION { [1..n -> Vocabulary] : n \in 1..MaxWords }, Paddings)

SpecAnalyze == InitAnalyze /\ [][AnalyzeTask]_allVars

\* the coordinator idle, the helper, the scorers and analyzeTask not in use
IdleAgents ==
  /\ Init
  /\ callers = AwaitingCallers
  /\ Arguments({None}, {None}, {NoEntry}, {NoEntry}, {<<>>}, {<<>>}, {<<>>}, {0})

\* the MCP module and its callers
NextMCP ==
  \E t \in Tasks :
    \/ GetMCPClient(t) /\ UNCHANGED <<vars, callers, pureVars, clearVars, toolVars>>
    \/ CallListing(t) /\ UNCHANGED <<vars, callers, pureVars, clearVars, toolVars>>
    \/ ListFromClient(t) /\ UNCHANGED <<vars, callers, pureVars, clearVars, toolVars>>
    \/ ClientListResolves(t) /\ UNCHANGED <<vars, callers, pureVars, clearVars, toolVars>>
    \/ ClientListRejects(t) /\ UNCHANGED <<vars, callers, pureVars, clearVars, toolVars>>
    \/ DisconnectMCP(t) /\ UNCHANGED <<vars, callers, pureVars, clearVars, toolVars>>
    \/ DisconnectResolves(t) /\ UNCHANGED <<vars, callers, pureVars, clearVars, toolVars>>
    \/ DisconnectRejects(t) /\ UNCHANGED <<vars, callers, pureVars, clearVars, toolVars>>
    \/ TaskReturns(t) /\ UNCHANGED <<vars, callers, pureVars, clearVars, toolVars>>

InitModule ==
  /\ IdleAgents
  /\ InitMCP
  /\ ClearArguments({None}, {None})
  /\ ToolArguments({NoSearchArgs}, {None})

SpecMCP == InitModule /\ [][NextMCP]_allVars

\* clearConversationHistory on the threads of a memory store
NextClear ==
  \/ ClearConversationHistory /\ UNCHANGED <<vars, callers, pureVars, mcpVars, toolVars>>
  \/ GetThreadsResolves /\ UNCHANGED <<vars, callers, pureVars, mcpVars, toolVars>>
  \/ QueryResolves /\ UNCHANGED <<vars, callers, pureVars, mcpVars, toolVars>>
  \/ DeleteResolves /\ UNCHANGED <<vars, callers, pureVars, mcpVars, toolVars>>
  \/ MemoryRejects /\ UNCHANGED <<vars, callers, pureVars, mcpVars, toolVars>>

InitClear ==
  /\ IdleAgents
  /\ NoMCP
  /\ ClearArguments(UserIds, {None, "", "tA"})
  /\ ToolArguments({NoSearchArgs}, {None})

SpecClear == InitClear /\ [][NextClear]_allVars

\* the search tool on a registry
InitSearch ==
  /\ IdleAgents
  /\ NoMCP
  /\ ClearArguments({None}, {None})
  /\ ToolArguments([context : SearchContexts, registry : ListingsOf(SearchCatalogues)], {None})

SpecSearch == InitSearch /\ [][SearchMCPResources]_allVars

\* the task planner on the descriptions of the vocabulary
InitPlan ==
  /\ IdleAgents
  /\ NoMCP
  /\ ClearArguments({None}, {None})
  /\ ToolArguments({NoSearchArgs},
       { joinWords(w) : w \in UNION { [1..n -> PlanVocabulary] : n \in 1..MaxPlanWords } })

SpecPlan == InitPlan /\ [][PlanTask]_allVars

\* ================================================================= claims
IsProcessRequest(r) == req[r].kind = "processRequest"

\* C1: processRequest never raises: whenever thread creation, task analysis
\* or the orchestrator's generate throws, the call returns a result with
\* success = false, agentsUsed = [], metadata.error set and a response that
\* embeds the error's message (the words 'Unknown error' when the thrown
\* value is not an Error and so has no message).
NonThrowingCoordinator ==
  \A r \in Reqs :
    IsProcessRequest(r) =>
      /\ pc[r] /= "threw"
      /\ thrown[r] /= NoThrow =>
           /\ pc[r] = "done"
           /\ result[r].success = FALSE
           /\ result[r].agentsUsed = <<>>
           /\ result[r].metadata.error \notin {None, ""}
           /\ Includes(result[r].response,
                       IF thrown[r].isError THEN thrown[r].message ELSE "Unknown error")

\* a processRequest whose generate or createThread threw an Error has returned
FailureResultReturned ==
  \E r \in Reqs :
    /\ IsProcessRequest(r) /\ pc[r] = "done"
    /\ thrown[r].isError /\ result[r].success = FALSE
    /\ Includes(result[r].response, "connection refused")

\* C2: the delegation tool's execute never re-throws: an exception raised
\* while resolving the Mastra instance, resolving the target agent or running
\* the sub-agent's generate becomes a returned result with success = false
\* and an error string.
DelegationNeverRethrows ==
  \A r \in Reqs :
    /\ deleg[r].state /= "threw"
    /\ deleg[r].caught /= NoThrow =>
         /\ deleg[r].state = "returned"
         /\ deleg[r].results = 1
         /\ deleg[r].success = FALSE
         /\ deleg[r].error /= None

\* a delegation whose sub-agent generate threw has returned its failure result
SubAgentFailureReturned ==
  \E r \in Reqs :
    /\ deleg[r].state = "returned" /\ deleg[r].genCalls = 1
    /\ deleg[r].caught \in ThrownValues /\ deleg[r].success = FALSE

\* C3: delegating to an agent name that is not a key of the static agent map
\* returns success = false with a non-empty error string, never throws, and
\* makes no sub-agent generate call.
UnknownAgentSafety ==
  \A r \in Reqs :
    (deleg[r].agent /= None /\ deleg[r].agent \notin AgentMapKeys) =>
      /\ deleg[r].state = "returned"
      /\ deleg[r].success = FALSE
      /\ Truthy(deleg[r].error)
      /\ deleg[r].genCalls = 0
      /\ pc[r] /= "delegate"

\* the delegation to quantumComputing has returned 'Unknown agent type'
UnknownAgentRejected ==
  \E r \in Reqs :
    /\ deleg[r].agent = "quantumComputing" /\ deleg[r].state = "returned"
    /\ deleg[r].error = "Unknown agent type: quantumComputing"

\* C4: in a sequence of processRequest calls that pass the same non-empty
\* context.thread, every result, success or failure, carries that thread id
\* and every orchestrator generate call is issued against that thread.
ThreadContinuity ==
  /\ \A e \in threadLog : e[2] = e[1]
  /\ \A r \in Reqs :
       (IsProcessRequest(r) /\ Truthy(req[r].thread)) =>
         /\ \A i \in 1..Len(genCalls[r]) : genCalls[r][i].thread = req[r].thread
         /\ pc[r] = "done" => result[r].thread = req[r].thread

\* a second call on thread tA has returned after an earlier call's result on
\* tA was collected
SecondCallOnSameThread ==
  /\ <<"tA", "tA", "result">> \in threadLog
  /\ \E r \in Reqs :
       /\ IsProcessRequest(r) /\ pc[r] = "done" /\ req[r].thread = "tA"
       /\ Len(genCalls[r]) = 1 /\ result[r].thread = "tA"

\* C5: processRequest calls the memory store's createThread exactly once
\* when no thread id is supplied in context and never when one is supplied;
\* the same holds for startConversation and its threadId argument.
CreateThreadIffNoThread ==
  \A r \in Reqs :
    req[r].kind /= None =>
      createCalls[r] = IF Truthy(req[r].thread) THEN 0 ELSE 1

\* a processRequest without a thread has finished after one createThread call
CreatedOneThread ==
  \E r \in Reqs :
    /\ IsProcessRequest(r) /\ pc[r] = "done" /\ req[r].thread = None
    /\ createCalls[r] = 1 /\ result[r].success = TRUE

\* C6: every sub-agent generate call the delegation tool makes during a
\* processRequest gets a memory context whose thread and resource are that
\* request's resolved thread id and userId.
DelegationUsesRequestThread ==
  \A r \in Reqs :
    (IsProcessRequest(r) /\ deleg[r].genCalls > 0) =>
      /\ deleg[r].memory.thread = thread[r]
      /\ deleg[r].memory.resource = req[r].userId
      /\ \A i \in 1..Len(genCalls[r]) : genCalls[r][i].thread = deleg[r].memory.thread

\* a delegation of a request whose thread the memory store created is running
DelegationOnCreatedThread ==
  \E r \in Reqs :
    /\ IsProcessRequest(r) /\ ~Truthy(req[r].thread)
    /\ pc[r] = "delegate" /\ deleg[r].genCalls = 1
    /\ deleg[r].memory.thread \in NewThreadIds

\* C7: one invocation of the delegation tool issues at most one sub-agent
\* generate call and produces exactly one DelegationResult; after a failed
\* generate call it issues no second one.
NoRetryInDelegation ==
  \A r \in Reqs :
    /\ deleg[r].genCalls <= 1
    /\ deleg[r].results = IF deleg[r].state = "returned" THEN 1 ELSE 0
    /\ pc[r] = "delegate" <=> deleg[r].state = "generating"

\* a delegation has returned its one result after its one generate call failed
OneResultAfterFailedGenerate ==
  \E r \in Reqs :
    /\ deleg[r].state = "returned" /\ deleg[r].genCalls = 1 /\ deleg[r].results = 1
    /\ deleg[r].success = FALSE /\ pc[r] = "generate"

\* C8: when a request carries a timeout and the orchestrator's generate has
\* not completed within it, processRequest returns a failure result.
TimeoutSurfacesAsFailure ==
  \A r \in Reqs :
    (IsProcessRequest(r) /\ pc[r] = "done" /\ timerFired[r]) => result[r].success = FALSE

\* C9: after a successful processRequest, agentsUsed contains 'mainAgent' and,
\* for every call the orchestrator made to its delegation tool naming
\* sub-agent X, the entry for X, each at most once.
AgentsUsedListsDelegates ==
  \A r \in Reqs :
    (IsProcessRequest(r) /\ pc[r] = "done" /\ result[r].success) =>
      LET used == result[r].agentsUsed
      IN  /\ SeqHas(used, "mainAgent")
          /\ \A i \in 1..Len(toolCalls[r]) :
               (toolCalls[r][i].toolName = DelegationToolKey
                  /\ toolCalls[r][i].agent \in AgentMapKeys)
                 => SeqHas(used, toolCalls[r][i].agent \o "Agent")
          /\ \A i, j \in 1..Len(used) : used[i] = used[j] => i = j

\* C10: processRequest invokes the orchestrator's generate at most once per
\* request, with maxSteps = estimatedSteps of the analysis of that request's
\* message, plus 2.
GenerateOnceWithStepBudget ==
  \A r \in Reqs :
    IsProcessRequest(r) =>
      /\ Len(genCalls[r]) <= 1
      /\ pc[r] \in {"generate", "delegate"} => Len(genCalls[r]) = 1
      /\ \A i \in 1..Len(genCalls[r]) :
           /\ genCalls[r][i].maxSteps = analysisOf[req[r].message].estimatedSteps + 2
           /\ req[r].message = "Hello there" => genCalls[r][i].maxSteps = 5
           /\ req[r].message = "Send an Email and find the forecast"
                => genCalls[r][i].maxSteps = 10

\* a request naming three domains runs its generate with ten steps
GenerateWithTenSteps ==
  \E r \in Reqs :
    /\ IsProcessRequest(r) /\ pc[r] = "generate"
    /\ Len(genCalls[r]) = 1 /\ genCalls[r][1].maxSteps = 10

\* ---------------------------------------------------- claims on the helper
\* the entries the servers list, each with its server
Listed(entries) ==
  UNION { { [server |-> entries[i].server, item |-> entries[i].items.list[j]] :
            j \in 1..Len(entries[i].items.list) } : i \in 1..Len(entries) }

ResourceScore(x) == resourceRelevanceOf[ctxUserQuery, ctxQueryType, x.item].score
PromptScore(x) == promptRelevanceOf[ctxUserQuery, ctxQueryType, x.item].score

ResourceReturned(x) ==
  \E k \in 1..Len(helperResult.value.relevantResources) :
    /\ helperResult.value.relevantResources[k].server = x.server
    /\ helperResult.value.relevantResources[k].uri = x.item.uri
PromptReturned(x) ==
  \E k \in 1..Len(helperResult.value.relevantPrompts) :
    /\ helperResult.value.relevantPrompts[k].server = x.server
    /\ helperResult.value.relevantPrompts[k].name = x.item.name

RelevantResources == { x \in Listed(allResources) : ResourceScore(x) > RelevanceThreshold }
RelevantPrompts == { x \in Listed(allPrompts) : PromptScore(x) > RelevanceThreshold }

\* C11, as stated: a listed resource or prompt is in the returned
\* relevantResources / relevantPrompts if and only if its score is above 0.3
ReturnedIffAboveThreshold ==
  helperResult.returned =>
    /\ \A x \in Listed(allResources) : ResourceReturned(x) <=> ResourceScore(x) > RelevanceThreshold
    /\ \A x \in Listed(allPrompts) : PromptReturned(x) <=> PromptScore(x) > RelevanceThreshold

\* C11, amended: a returned entry always scores above 0.3, each returned list
\* holds at most five entries, and every entry scoring above 0.3 is returned
\* when at most five entries of its kind score above 0.3
ReturnedAboveThresholdUpToFive ==
  helperResult.returned =>
    /\ \A x \in Listed(allResources) : ResourceReturned(x) => ResourceScore(x) > RelevanceThreshold
    /\ \A x \in Listed(allPrompts) : PromptReturned(x) => PromptScore(x) > RelevanceThreshold
    /\ Len(helperResult.value.relevantResources) <= TopN
    /\ Len(helperResult.value.relevantPrompts) <= TopN
    /\ Cardinality(RelevantResources) <= TopN => \A x \in RelevantResources : ResourceReturned(x)
    /\ Cardinality(RelevantPrompts) <= TopN => \A x \in RelevantPrompts : PromptReturned(x)

\* the helper returned: a resource scoring exactly 0.3 and a prompt scoring
\* less were left out, entries scoring more were returned, no list was cut
ThresholdEntryLeftOut ==
  /\ helperResult.returned
  /\ \E x \in Listed(allResources) : ResourceScore(x) = RelevanceThreshold /\ ~ResourceReturned(x)
  /\ \E x \in Listed(allPrompts) : PromptScore(x) < RelevanceThreshold /\ ~PromptReturned(x)
  /\ \E x \in RelevantResources : ResourceReturned(x)
  /\ \E x \in RelevantPrompts : PromptReturned(x)
  /\ Cardinality(RelevantResources) <= TopN
  /\ Cardinality(RelevantPrompts) <= TopN

\* --------------------------------------------------- claims on the scorers
\* what the signals of the scored entry add up to, before Math.min
ResourceSum ==
  sumIncrements(resourceSignals(scoredResource, keywordsOf[ctxUserQuery], ctxQueryType))
PromptSum ==
  sumIncrements(promptSignals(scoredPrompt, keywordsOf[ctxUserQuery], ctxQueryType))

\* C12: the score calculateResourceRelevance and calculatePromptRelevance
\* return lies between 0 and 1, however many signals fire
ScoreWithinUnitInterval ==
  /\ resourceRelevance /= NoRelevance =>
       0 <= resourceRelevance.score /\ resourceRelevance.score <= Hundredths
  /\ promptRelevance /= NoRelevance =>
       0 <= promptRelevance.score /\ promptRelevance.score <= Hundredths

\* both scorers returned 1 for an entry whose signals add up to more than 1
ScoreCappedAtOne ==
  /\ resourceRelevance /= NoRelevance
  /\ ResourceSum > Hundredths /\ resourceRelevance.score = Hundredths
  /\ promptRelevance /= NoRelevance
  /\ PromptSum > Hundredths /\ promptRelevance.score = Hundredths

\* the relevance.score of the k-th returned resource, of the k-th returned prompt
ReturnedResourceScore(k) ==
  LET entry == helperResult.value.relevantResources[k]
  IN  resourceRelevanceOf[ctxUserQuery, ctxQueryType,
                          CHOOSE r \in ResourcePool : r.uri = entry.uri].score
ReturnedPromptScore(k) ==
  LET entry == helperResult.value.relevantPrompts[k]
  IN  promptRelevanceOf[ctxUserQuery, ctxQueryType,
                        CHOOSE p \in PromptPool : p.name = entry.name].score

\* C13, as stated: the returned resources and prompts are ranked by relevance
\* score, highest first, and entries of equal score by the length of their
\* reasons string, longer first
RankedByScoreThenReasonLength ==
  helperResult.returned =>
    /\ \A k \in 1..(Len(helperResult.value.relevantResources) - 1) :
         \/ ReturnedResourceScore(k) > ReturnedResourceScore(k + 1)
         \/ /\ ReturnedResourceScore(k) = ReturnedResourceScore(k + 1)
            /\ Len(helperResult.value.relevantResources[k].relevanceReason)
                 >= Len(helperResult.value.relevantResources[k + 1].relevanceReason)
    /\ \A k \in 1..(Len(helperResult.value.relevantPrompts) - 1) :
         \/ ReturnedPromptScore(k) > ReturnedPromptScore(k + 1)
         \/ /\ ReturnedPromptScore(k) = ReturnedPromptScore(k + 1)
            /\ Len(helperResult.value.relevantPrompts[k].relevanceReason)
                 >= Len(helperResult.value.relevantPrompts[k + 1].relevanceReason)

\* integration names extractKeywords detects in the raw query
DetectedIntegrations ==
  { keywordIntegrations[i] : i \in { j \in 1..Len(keywordIntegrations) :
       Includes(toLowerCase(ctxUserQuery), keywordIntegrations[j]) } }

\* the name or the description of the scored prompt contains the word
PromptMentions(word) ==
  \/ Includes(toLowerCase(OrEmpty(scoredPrompt.name)), word)
  \/ Includes(toLowerCase(OrEmpty(scoredPrompt.description)), word)

\* C14, as stated: for every allow-listed integration name detected in the raw
\* query, a prompt whose name or description contains it receives the +0.50
\* integration bonus in addition to the per-token increment
IntegrationBonusForDetected ==
  promptRelevance /= NoRelevance =>
    \A integration \in DetectedIntegrations :
      PromptMentions(integration) =>
        /\ Includes(promptRelevance.reason, "Contains keyword: " \o integration)
        /\ Includes(promptRelevance.reason, integration \o " integration prompt")
        /\ PromptSum >= 25 + 50

\* the name or the uri of the scored resource contains the word
ResourceNameOrUriHas(word) ==
  OptIncludes(scoredResource.name, word) \/ OptIncludes(scoredResource.uri, word)

\* C15, as stated: a resource receives the +0.30 documentation bonus if and
\* only if the query type is 'information' and its mime type is markdown or
\* its name or its uri contains 'doc' or 'guide'
DocumentationBonusIff ==
  resourceRelevance /= NoRelevance =>
    ( Includes(resourceRelevance.reason, "Documentation resource")
      <=> /\ ctxQueryType = "information"
          /\ \/ scoredResource.mimeType = "text/markdown"
             \/ ResourceNameOrUriHas("doc")
             \/ ResourceNameOrUriHas("guide") )

\* ------------------------------------------------ claims on the task analysis
Analysed == analysis /= NoAnalysis

\* words of the message, filler included
WordsInMessage == Len(taskWords) + taskPadding

\* occurrences of the word 'and' in the lower-cased message, in the message
AndWordsLowerCased ==
  Cardinality({ i \in 1..Len(taskWords) : toLowerCase(taskWords[i]) = "and" })
AndWords == Cardinality({ i \in 1..Len(taskWords) : taskWords[i] = "and" })

\* the keywords of the four agent domains: email, calendar, search, weather
Domains ==
  { { "email", "send", "reply" },
    { "meeting", "schedule", "calendar" },
    { "search", "find", "research" },
    { "weather", "forecast" } }

\* the domains with a keyword among the words of the message
DetectedDomains ==
  { d \in Domains : \E i \in 1..Len(taskWords) : toLowerCase(taskWords[i]) \in d }

\* C17, as stated: complexity is 'complex' exactly when requiredAgents has more
\* than 3 members or the lower-cased message contains the word 'and' more than
\* once or the word count exceeds 50; otherwise 'moderate' exactly when
\* requiredAgents has more than 1 member or the word count exceeds 20;
\* otherwise 'simple'
ComplexityLadderLowerCased ==
  Analysed =>
    analysis.complexity =
      IF \/ Len(analysis.requiredAgents) > 3
         \/ AndWordsLowerCased > 1
         \/ WordsInMessage > 50
      THEN "complex"
      ELSE IF Len(analysis.requiredAgents) > 1 \/ WordsInMessage > 20 THEN "moderate"
      ELSE "simple"

\* C18: requiredAgents contains the orchestrator and estimatedSteps is
\* max(3, 2 x |requiredAgents|): at least 3, and at least 4 when a domain is
\* detected
StepsFromRequiredAgents ==
  Analysed =>
    LET n == Len(analysis.requiredAgents)
    IN  /\ SeqHas(analysis.requiredAgents, "mainAgent")
        /\ analysis.estimatedSteps >= 3
        /\ analysis.estimatedSteps >= 2 * n
        /\ analysis.estimatedSteps = 3 \/ analysis.estimatedSteps = 2 * n
        /\ DetectedDomains /= {} => analysis.estimatedSteps >= 4

\* a message with two detected domains was analysed: three agents, six steps
SixStepsForTwoDomains ==
  /\ Analysed
  /\ Cardinality(DetectedDomains) = 2
  /\ Len(analysis.requiredAgents) = 3
  /\ analysis.estimatedSteps = 6

\* C19: a message in which the four agent domains are detected is never
\* analysed as 'simple'
FourDomainsNeverSimple ==
  Analysed /\ DetectedDomains = Domains => analysis.complexity /= "simple"

\* a short message naming the four domains, without 'and', came out 'complex'
FourDomainsComplex ==
  /\ Analysed
  /\ DetectedDomains = Domains
  /\ AndWordsLowerCased = 0
  /\ WordsInMessage = 4
  /\ analysis.complexity = "complex"

\* C20, as stated: a message of exactly five words in which exactly one agent
\* domain is detected is never analysed as 'complex'
FiveWordsOneDomainNeverComplex ==
  Analysed /\ WordsInMessage = 5 /\ Cardinality(DetectedDomains) = 1
    => analysis.complexity /= "complex"

\* C20, amended: a message of exactly five words in which exactly one agent
\* domain is detected and the word 'and' occurs at most once is never analysed
\* as 'complex'
FiveWordsOneDomainOneAndNeverComplex ==
  Analysed /\ WordsInMessage = 5 /\ Cardinality(DetectedDomains) = 1 /\ AndWords <= 1
    => analysis.complexity /= "complex"

\* a five-word message with one domain and one 'and' came out 'moderate'
FiveWordsOneDomainModerate ==
  /\ Analysed
  /\ WordsInMessage = 5
  /\ Cardinality(DetectedDomains) = 1
  /\ AndWords = 1
  /\ analysis.complexity = "moderate"

\* a domain with this keyword is detected in the message
Detected(keyword) == \E d \in DetectedDomains : keyword \in d

\* C21, as stated: primaryIntent is the intent of the highest-priority detected
\* domain, and is 'general assistance' only when no domain keyword was detected
IntentGeneralOnlyWithoutDomain ==
  Analysed =>
    /\ analysis.primaryIntent = "general assistance" <=> DetectedDomains = {}
    /\ Detected("email") => analysis.primaryIntent = "email management"
    /\ Detected("calendar") /\ ~Detected("email") => analysis.primaryIntent = "scheduling"

\* C21, amended: primaryIntent is 'email management' when the email domain is
\* detected, else 'scheduling' when the calendar domain is, else 'information
\* retrieval' when the search domain is, and 'general assistance' exactly when
\* none of these three is detected, the weather domain having no intent
IntentByPriorityOfThreeDomains ==
  Analysed =>
    analysis.primaryIntent =
      IF Detected("email") THEN "email management"
      ELSE IF Detected("calendar") THEN "scheduling"
      ELSE IF Detected("search") THEN "information retrieval"
      ELSE "general assistance"

\* calendar, search and weather were detected, email was not: 'scheduling'
SchedulingOutranksSearch ==
  /\ Analysed
  /\ Detected("calendar") /\ Detected("search") /\ Detected("weather") /\ ~Detected("email")
  /\ analysis.primaryIntent = "scheduling"

\* ---------------------------------------------- claims on the calls' threads
\* C28: a failure result's thread is context.thread when the request supplied
\* one and the empty string otherwise, also when the memory store had already
\* created a thread for the call; the id of that thread is not returned.
FailureThreadFromContextOnly ==
  \A r \in Reqs :
    (IsProcessRequest(r) /\ pc[r] = "done" /\ ~result[r].success) =>
      /\ result[r].thread = IF req[r].thread = None THEN "" ELSE req[r].thread
      /\ thread[r] \in NewThreadIds => result[r].thread = ""

\* a call without a thread failed in generate, after its thread was created
FailureAfterCreatedThread ==
  \E r \in Reqs :
    /\ IsProcessRequest(r) /\ pc[r] = "done" /\ ~result[r].success
    /\ req[r].thread = None /\ createCalls[r] = 1 /\ Len(genCalls[r]) = 1
    /\ thread[r] \in NewThreadIds /\ result[r].thread = ""

\* C24: with two processRequest calls in flight together on different
\* threads, each result carries the thread of its own request (a failure
\* result the thread its request supplied, if any), and each delegation runs
\* on the thread and the userId of the request that triggered it, never on
\* the other call's.
InFlightCallsKeepTheirOwn ==
  \A r \in Reqs :
    IsProcessRequest(r) =>
      /\ pc[r] = "done" =>
           result[r].thread = IF result[r].success THEN thread[r]
                              ELSE IF Truthy(req[r].thread) THEN req[r].thread ELSE ""
      /\ Truthy(req[r].thread) /\ thread[r] /= None => thread[r] = req[r].thread
      /\ deleg[r].genCalls > 0 =>
           deleg[r].memory = [thread |-> thread[r], resource |-> req[r].userId]
      /\ \A q \in Reqs \ {r} :
           (IsProcessRequest(q) /\ thread[q] /= None /\ thread[q] /= thread[r]) =>
             /\ pc[r] = "done" => result[r].thread /= thread[q]
             /\ deleg[r].genCalls > 0 => deleg[r].memory.thread /= thread[q]

\* the two calls, of different users on different threads, are both inside a
\* delegation's generate call
TwoDelegationsInFlight ==
  /\ pc[1] = "delegate" /\ pc[2] = "delegate"
  /\ req[1].userId /= req[2].userId
  /\ thread[1] = "tB" /\ thread[2] \in NewThreadIds
  /\ deleg[1].memory.thread = "tB" /\ deleg[2].memory.thread = thread[2]

\* C30: a delegation to weather, project or analytics, which the input
\* schema accepts and the agent map resolves but the Mastra instance does not
\* register, returns success = false and makes no sub-agent generate call.
UnregisteredAgentsFail ==
  \A r \in Reqs :
    deleg[r].agent \in {"weather", "project", "analytics"} =>
      /\ agentMap(deleg[r].agent) \notin RegisteredAgents
      /\ deleg[r].state = "returned"
      /\ deleg[r].success = FALSE
      /\ deleg[r].genCalls = 0
      /\ pc[r] /= "delegate"

\* delegations to project and to analytics have returned 'not found'
UnregisteredDelegationsFailed ==
  /\ deleg[1].agent = "project" /\ deleg[1].state = "returned" /\ ~deleg[1].success
  /\ deleg[1].error = "Agent projectAgent not found or not initialized"
  /\ deleg[2].agent = "analytics" /\ deleg[2].state = "returned" /\ ~deleg[2].success
  /\ deleg[2].error = "Agent with name analyticsAgent not found"

\* ------------------------------------------------- claims on the MCP module
IsListing(t) == task[t].op \in Listings

\* C22: with one of several configured servers unreachable, a listing of
\* tools, resources or prompts returns the entries of the reachable servers,
\* nothing for the unreachable one, and no exception reaches the caller.
ListingSurvivesUnreachableServer ==
  \A t \in Tasks :
    (IsListing(t) /\ unreachable /= {} /\ Cardinality(configured) > 1) =>
      /\ task[t].pc /= "threw"
      /\ task[t].pc = "done" => task[t].value = configured \ unreachable

NoDisconnectedClientReturned ==
  \A t \in Tasks : task[t].op = "getMCPClient" => ~task[t].stale

\* ------------------------------------ claim on clearConversationHistory
\* C25: clearConversationHistory never raises; it returns true exactly when
\* every memory call it issued succeeded, and false as soon as one fails,
\* issuing no further call.
ClearReturnsWhetherAllSucceeded ==
  /\ clearPc /= "threw"
  /\ \A i \in 1..(Len(clearCalls) - 1) : clearCalls[i].outcome = "ok"
  /\ clearPc = "done" =>
       (clearResult <=> \A i \in 1..Len(clearCalls) : clearCalls[i].outcome = "ok")
  /\ (\E i \in 1..Len(clearCalls) : clearCalls[i].outcome = "failed") =>
       clearPc = "done" /\ ~clearResult

\* the first thread of two was cleared, the query on the second one failed
ClearFailedOnSecondThread ==
  /\ clearPc = "done" /\ ~clearResult /\ Len(clearQueue) = 1
  /\ Len(clearCalls) = 4
  /\ clearCalls[3] = [op |-> "deleteMessages", outcome |-> "ok"]
  /\ clearCalls[4] = [op |-> "query", outcome |-> "failed"]

\* --------------------------------------------------- claims on the two tools
\* C26: the search tool never returns more than maxResults results, for every
\* maxResults >= 0 and every registry content, and found is the number of
\* results returned.
SearchResultsWithinMax ==
  searchResult /= NoSearchResult =>
    /\ Len(searchResult.results) <= searchArgs.context.maxResults
    /\ searchResult.found = Len(searchResult.results)

\* C27: in every plan the step orders are 1..n without gaps, and each step's
\* dependencies are order numbers of steps earlier in the plan.
PlanOrdersAndDependencies ==
  \A i \in 1..Len(plan.steps) :
    /\ plan.steps[i].order = i
    /\ \A j \in 1..Len(plan.steps[i].dependencies) :
         \E k \in 1..(i - 1) : plan.steps[k].order = plan.steps[i].dependencies[j]
====
